---- MODULE Spec2Model ----
(***************************************************************************)
(* Model of the antfarm run/step/story state machine.                      *)
(*                                                                         *)
(* The store (SQLite tables runs, steps, stories), the event log and the   *)
(* gateway's cron jobs are the state.  runWorkflow (installer/run.ts),     *)
(* cleanup-stale, resume and probe (cli/cli.ts) and the cron lifecycle     *)
(* (installer/agent-cron.ts) are translated from their source.  The step   *)
(* operations claimStep / completeStep / failStep of installer/step-ops.ts *)
(* (imported at cli.ts:26) follow sections 4.1 and 4.2 of the              *)
(* specification.                                                          *)
(***************************************************************************)
EXTENDS Integers, Sequences, FiniteSets, TLC

\* ------------------------------------------------------------------ bounds
MaxRuns == 1        \* runs ever inserted (Spec)
MaxQueueRuns == 2   \* runs ever inserted (SpecQueue)
MaxRaceRuns == 3    \* runs ever inserted or about to be (SpecRace)
MaxClock == 3       \* the clock stops ticking here
MaxStories == 2     \* stories a planning step emits
MaxResumes == 1     \* resume invocations per run
MaxStaleRuns == 2   \* runs ever inserted (SpecStale, SpecSweep)
MaxArmRuns == 2     \* runs ever inserted (SpecArm)
MaxArmCrons == 2    \* no cron job is added once a workflow has this many (SpecArm)
MaxEnvLen == 5      \* characters of OPENCLAW_GATEWAY_PORT (SpecGateway)
MaxCrons == 1       \* cron jobs the gateway holds per workflow

\* ------------------------------------------------------- program constants
DefaultMaxRetries == 2      \* run.ts:157  step.max_retries ?? step.on_fail?.max_retries ?? 2
DefaultGatewayPort == 18789 \* gateway-api.ts:63  config.port ?? 18789
MaxPort == 65535            \* the largest port number
StaleThresholdMs == 1       \* run.ts:17-23 getStaleActiveRunThresholdMs(), in clock ticks

Procs == {"p1", "p2"}       \* concurrent CLI processes running `workflow run`
Workflows == {"w1", "w2", "w3"}
Verdicts == {"done", "retry", "failed"}

\* An absent number (max_retries not given in the workflow file) is -1; an absent
\* story binding (current_story_id IS NULL) is 0; an absent text is "NULL"; an
\* absent loop configuration is the empty set.
NoLoop == {}

SetMax(S) == CHOOSE x \in S : \A y \in S : y <= x

\* ------------------------------------------------------------ WorkflowSpec
\* The parsed workflow files (external collaborator, read at run creation only).
\* w1: plan -> develop (loop, verify_each) -> verify -> ship
\* w2: plan -> implement (loop, no verify) -> ship
\* w3: draft -> publish, both of one agent
WorkflowSpec(w) ==
  IF w = "w1" THEN
    [id |-> "w1",
     steps |-> <<
       [id |-> "plan", agent |-> "planner", max_retries |-> 1, on_fail_max_retries |-> -1,
        type |-> "NULL", loop |-> NoLoop],
       [id |-> "develop", agent |-> "developer", max_retries |-> -1, on_fail_max_retries |-> 0,
        type |-> "loop", loop |-> {[over |-> "stories", verifyEach |-> TRUE, verifyStep |-> "verify", maxStoryRetries |-> 1]}],
       [id |-> "verify", agent |-> "verifier", max_retries |-> 0, on_fail_max_retries |-> -1,
        type |-> "NULL", loop |-> NoLoop],
       [id |-> "ship", agent |-> "planner", max_retries |-> 0, on_fail_max_retries |-> 2,
        type |-> "single", loop |-> NoLoop] >>]
  ELSE IF w = "w2" THEN
    [id |-> "w2",
     steps |-> <<
       [id |-> "plan", agent |-> "planner", max_retries |-> 0, on_fail_max_retries |-> -1,
        type |-> "NULL", loop |-> NoLoop],
       [id |-> "implement", agent |-> "developer", max_retries |-> 0, on_fail_max_retries |-> -1,
        type |-> "loop", loop |-> {[over |-> "stories", verifyEach |-> FALSE, verifyStep |-> "NULL", maxStoryRetries |-> 0]}],
       [id |-> "ship", agent |-> "planner", max_retries |-> -1, on_fail_max_retries |-> -1,
        type |-> "NULL", loop |-> NoLoop] >>]
  ELSE
    [id |-> "w3",
     steps |-> <<
       [id |-> "draft", agent |-> "writer", max_retries |-> 1, on_fail_max_retries |-> -1,
        type |-> "NULL", loop |-> NoLoop],
       [id |-> "publish", agent |-> "writer", max_retries |-> 0, on_fail_max_retries |-> -1,
        type |-> "single", loop |-> NoLoop] >>]

MaxSteps == SetMax({Len(WorkflowSpec(w).steps) : w \in Workflows})

\* `${workflow.id}/${step.agent}`
AgentId(w, agent) == <<w, agent>>

Agents == UNION {{AgentId(w, WorkflowSpec(w).steps[i].agent) :
                    i \in 1..Len(WorkflowSpec(w).steps)} : w \in Workflows}

\* ------------------------------------------------------------------- state
VARIABLES
  now,        \* wall clock (Date.now()), in ticks
  runs,       \* table runs: sequence of rows, the run id is the position
  steps,      \* table steps: per run id, the rows ordered by step_index
  stories,    \* table stories: per run id, the rows ordered by story_index
  events,     \* event log: per run id, the number of events of each kind
  crons,      \* gateway: per workflow, the number of cron jobs antfarm/<workflow>/...
  proc,       \* per CLI process: where its runWorkflow call stands, and its locals
  out,        \* what the command that ran last printed, if it was `step claim`
  resumes     \* per run id, how many times it was resumed

vars == <<now, runs, steps, stories, events, crons, proc, out, resumes>>

\* ----------------------------------------------------------------- helpers
RunIds == 1..Len(runs)
StepIdx(r) == 1..Len(steps[r])
StoryIdx(r) == 1..Len(stories[r])

EventKinds == {"run.started", "run.failed", "run.completed"}
NoEvents == [k \in EventKinds |-> 0]

\* emitEvent({event: kind, runId: r, ...}): append-only
emitEvent(ev, r, kind) == [ev EXCEPT ![r][kind] = @ + 1]

IdleProc ==
  [pc |-> "idle", workflow |-> "NULL", allowConcurrent |-> FALSE, now |-> 0, runId |-> 0,
   staleRuns |-> {}]

\* cli.ts:293-297: `step claim` prints NO_WORK or {stepId, runId, input}
NoOutput == [kind |-> "none", runId |-> 0, stepIndex |-> 0]
NO_WORK == [kind |-> "NO_WORK", runId |-> 0, stepIndex |-> 0]
RESUME_ERROR == [kind |-> "error", runId |-> 0, stepIndex |-> 0]
ClaimedOutput(r, stepIndex) == [kind |-> "claimed", runId |-> r, stepIndex |-> stepIndex]
\* cli.ts:616-623: the runs a dry run of cleanup-stale lists
DryRunOutput(staleRuns) == [kind |-> "dry-run", runs |-> staleRuns]

\* run.ts:11-15 / cli.ts:56-60: a missing timestamp parses to 0
parseUtcTimestamp(value) == IF value < 0 THEN 0 ELSE value

Max3(a, b, c) == SetMax({a, b, c})

\* The rows and jobs an operation reads and writes, as one value.
Store ==
  [runs |-> runs, steps |-> steps, stories |-> stories, events |-> events,
   crons |-> crons, resumes |-> resumes]

\* The store becomes st.
Commit(st) ==
  /\ runs' = st.runs
  /\ steps' = st.steps
  /\ stories' = st.stories
  /\ events' = st.events
  /\ crons' = st.crons
  /\ resumes' = st.resumes

Init ==
  /\ now = 1
  /\ runs = << >>
  /\ steps = << >>
  /\ stories = << >>
  /\ events = << >>
  /\ crons = [w \in Workflows |-> 0]
  /\ proc = [p \in Procs |-> IdleProc]
  /\ out = NoOutput
  /\ resumes = << >>

\* The clock advances between operations.
Tick ==
  /\ now < MaxClock
  /\ now' = now + 1
  /\ out' = NoOutput
  /\ UNCHANGED <<runs, steps, stories, events, crons, proc, resumes>>

\* ------------------------------------------------------------ runWorkflow
\* SELECT COUNT(*) FROM steps WHERE run_id = r AND status = 'running'
RunningSteps(st, r) ==
  Cardinality({i \in DOMAIN st.steps[r] : st.steps[r][i].status = "running"})

\* SELECT MAX(updated_at) FROM steps WHERE run_id = r.  Every write of a step row
\* stamps the current time, so the greatest stamp is the latest one; the row
\* of the run carries it as steps_updated_at (-1, NULL, without step rows).
StepUpdatedAt(st, r) == st.runs[r].steps_updated_at

\* a step row of run r is written at time t
TouchSteps(rs, r, t) == [rs EXCEPT ![r].steps_updated_at = t]

\* lastActivityMs = Math.max(created_at, updated_at, MAX(steps.updated_at))
LastActivityMs(st, r) ==
  Max3(parseUtcTimestamp(st.runs[r].created_at),
       parseUtcTimestamp(st.runs[r].updated_at),
       parseUtcTimestamp(StepUpdatedAt(st, r)))

\* A run is stale from the threshold on.
IsStaleAtThreshold(st, r, nowMs) ==
  /\ RunningSteps(st, r) = 0
  /\ LastActivityMs(st, r) > 0
  /\ (nowMs - LastActivityMs(st, r)) >= StaleThresholdMs

\* run.ts:91
IsStale(st, r, nowMs) ==
  /\ RunningSteps(st, r) = 0
  /\ LastActivityMs(st, r) > 0
  /\ (nowMs - LastActivityMs(st, r)) > StaleThresholdMs

\* UPDATE runs SET status = 'failed', updated_at = t WHERE id = r
FailRun(rs, r, t) == [rs EXCEPT ![r].status = "failed", ![r].updated_at = t]

OpenSteps(st, r) ==
  {i \in DOMAIN st.steps[r] : st.steps[r][i].status \in {"waiting", "pending", "running"}}

\* Open steps are failed and their output is overwritten with the reason.
FailOpenStepsOverwrite(st, r, reason, t) ==
  [st EXCEPT
     !.steps = [@ EXCEPT ![r] =
        [i \in DOMAIN st.steps[r] |->
           IF st.steps[r][i].status \in {"waiting", "pending", "running"}
           THEN [st.steps[r][i] EXCEPT !.status = "failed", !.output = reason]
           ELSE st.steps[r][i]]],
     !.runs = [@ EXCEPT ![r].steps_updated_at = t]]

\* UPDATE steps SET status = 'failed', output = COALESCE(output, reason), updated_at = t
\*  WHERE run_id = r AND status IN ('waiting','pending','running')
FailOpenSteps(st, r, reason, t) ==
  [st EXCEPT
     !.steps = [@ EXCEPT ![r] =
        [i \in DOMAIN st.steps[r] |->
           IF i \in OpenSteps(st, r)
           THEN [st.steps[r][i] EXCEPT
                   !.status = "failed",
                   !.output = IF st.steps[r][i].output = "NULL" THEN reason
                              ELSE st.steps[r][i].output]
           ELSE st.steps[r][i]]],
     !.runs = IF OpenSteps(st, r) # {} THEN TouchSteps(@, r, t) ELSE @]

\* run.ts:95-118: the stale run and its open steps are failed in one
\* transaction, then run.failed is emitted
StaleRecover(st, activeRun, t) ==
  LET failed == FailOpenSteps([st EXCEPT !.runs = FailRun(@, activeRun, t)],
                              activeRun, "stale", t)
  IN [failed EXCEPT !.events = emitEvent(@, activeRun, "run.failed")]

\* run.ts:38-71: the running runs of the workflow with the least created_at
\* (ORDER BY r.created_at ASC LIMIT 1; SQLite may return any of several equal rows)
ActiveRuns(st, w) ==
  LET running == {r \in DOMAIN st.runs :
                    st.runs[r].workflow_id = w /\ st.runs[r].status = "running"}
  IN {r \in running : \A q \in running : st.runs[r].created_at <= st.runs[q].created_at}

\* run.ts:37-133: what the active-run check may do to the store, and whether
\* the call goes on (ok) or throws.
CheckOutcomes(st, w, allow, t) ==
  IF allow \/ ActiveRuns(st, w) = {}
  THEN {[ok |-> TRUE, st |-> st]}
  ELSE {IF IsStale(st, activeRun, t)
        THEN [ok |-> TRUE, st |-> StaleRecover(st, activeRun, t)]
        ELSE [ok |-> FALSE, st |-> st] : activeRun \in ActiveRuns(st, w)}

\* run.ts:157
MaxRetriesOf(step) ==
  IF step.max_retries >= 0 THEN step.max_retries
  ELSE IF step.on_fail_max_retries >= 0 THEN step.on_fail_max_retries
  ELSE DefaultMaxRetries

\* Every inserted step starts pending.
InitialStatusAllPending(stepIndex) == "pending"

\* run.ts:156
InitialStatus(stepIndex) == IF stepIndex = 0 THEN "pending" ELSE "waiting"

\* step.input: every step of a workflow has its own template
InputOf(step) == <<"input", step.id>>

\* run.ts:152-161: the step row inserted for position i (step_index i - 1);
\* claimed is not a column: it tells whether a worker that claimed the step has
\* yet to report.
NewStepRow(w, i) ==
  LET step == WorkflowSpec(w).steps[i]
  IN [step_id |-> step.id,
      agent_id |-> AgentId(w, step.agent),
      step_index |-> i - 1,
      input_template |-> InputOf(step),
      status |-> InitialStatus(i - 1),
      max_retries |-> MaxRetriesOf(step),
      retry_count |-> 0,
      type |-> IF step.type = "NULL" THEN "single" ELSE step.type,
      loop_config |-> step.loop,
      current_story_id |-> 0,
      output |-> "NULL",
      claimed |-> FALSE]

NewStepRows(w) == [i \in 1..Len(WorkflowSpec(w).steps) |-> NewStepRow(w, i)]

\* run.ts:135-138: the keys of the initial context
InitialContext == {"task"}

\* run.ts:143-146; allowConcurrent is not a column: it records how the run was started
NewRunRow(w, allow, t) ==
  [workflow_id |-> w, status |-> "running", context |-> InitialContext,
   created_at |-> t, updated_at |-> t,
   steps_updated_at |-> IF Len(WorkflowSpec(w).steps) = 0 THEN -1 ELSE t,
   allowConcurrent |-> allow]

\* run.ts:140-163: the rows of one committed insert transaction
InsertRun(st, w, allow, t) ==
  [st EXCEPT !.runs = Append(@, NewRunRow(w, allow, t)),
             !.steps = Append(@, NewStepRows(w)),
             !.stories = Append(@, << >>),
             !.events = Append(@, NoEvents),
             !.resumes = Append(@, 0)]

\* agent-cron.ts:286-296 ensureWorkflowCrons.  outcome "exists": the cron list
\* shows a job of the workflow and nothing is done; "created": no job was seen
\* (or the list failed), preflight passed and the driver cron was created;
\* "failed": preflight or creation failed and the call throws.
EnsureCronsOutcomes(st, w) ==
  (IF st.crons[w] > 0 THEN {"exists"} ELSE {})
    \cup (IF st.crons[w] < MaxCrons THEN {"created"} ELSE {})
    \cup {"failed"}

ensureWorkflowCrons(st, w, outcome) ==
  IF outcome = "created" THEN [st EXCEPT !.crons = [@ EXCEPT ![w] = @ + 1]] ELSE st

\* Arming that throws on failure without touching the new run.
ArmCronsKeepRunning(st, r, w, outcome, t) ==
  IF outcome = "failed" THEN st
  ELSE [ensureWorkflowCrons(st, w, outcome) EXCEPT !.events = emitEvent(@, r, "run.started")]

\* run.ts:169-180: arm the crons; on failure mark the new run failed and throw;
\* otherwise emit run.started.
ArmCrons(st, r, w, outcome, t) ==
  IF outcome = "failed"
  THEN [st EXCEPT !.runs = FailRun(@, r, t)]
  ELSE [ensureWorkflowCrons(st, w, outcome) EXCEPT !.events = emitEvent(@, r, "run.started")]

\* runWorkflow as one uninterrupted call: the check, the insert transaction
\* (insertOk: it commits), the arming of the crons.
RunWorkflow(w, allow, insertOk, outcome) ==
  /\ \E c \in CheckOutcomes(Store, w, allow, now) :
       IF c.ok /\ insertOk
       THEN /\ outcome \in EnsureCronsOutcomes(c.st, w)
            /\ Commit(ArmCrons(InsertRun(c.st, w, allow, now), Len(runs) + 1, w, outcome, now))
       ELSE Commit(c.st)
  /\ out' = NoOutput
  /\ UNCHANGED <<now, proc>>

\* The same call as the steps separate processes can interleave: run.ts:31-133,
RunCheck(p, w, allow) ==
  /\ proc[p].pc = "idle"
  /\ \E c \in CheckOutcomes(Store, w, allow, now) :
       /\ Commit(c.st)
       /\ proc' = IF c.ok
                  THEN [proc EXCEPT ![p] = [pc |-> "checked", workflow |-> w,
                                            allowConcurrent |-> allow, now |-> now, runId |-> 0,
                                            staleRuns |-> {}]]
                  ELSE proc
  /\ out' = NoOutput
  /\ UNCHANGED now

\* run.ts:140-167 (a failing insert rolls everything back and the call throws),
RunInsert(p, ok) ==
  /\ proc[p].pc = "checked"
  /\ IF ok
     THEN /\ Commit(InsertRun(Store, proc[p].workflow, proc[p].allowConcurrent, proc[p].now))
          /\ proc' = [proc EXCEPT ![p].pc = "inserted", ![p].runId = Len(runs) + 1]
     ELSE /\ Commit(Store)
          /\ proc' = [proc EXCEPT ![p] = IdleProc]
  /\ out' = NoOutput
  /\ UNCHANGED now

\* and run.ts:169-188.
RunCrons(p, outcome) ==
  /\ proc[p].pc = "inserted"
  /\ outcome \in EnsureCronsOutcomes(Store, proc[p].workflow)
  /\ Commit(ArmCrons(Store, proc[p].runId, proc[p].workflow, outcome, now))
  /\ proc' = [proc EXCEPT ![p] = IdleProc]
  /\ out' = NoOutput
  /\ UNCHANGED now

\* --------------------------------------------------- step operations (4.1)
IsLoop(s) == s.type = "loop"
LoopCfg(s) == CHOOSE c \in s.loop_config : TRUE
VerifyEach(s) == IsLoop(s) /\ s.loop_config # {} /\ LoopCfg(s).verifyEach

\* The loop steps of run r whose configuration names step i as their verify step.
PairedLoops(st, r, i) ==
  {j \in DOMAIN st.steps[r] :
     /\ VerifyEach(st.steps[r][j])
     /\ LoopCfg(st.steps[r][j]).verifyStep = st.steps[r][i].step_id}

NonTerminalStories(st, r) ==
  {k \in DOMAIN st.stories[r] : st.stories[r][k].status \in {"pending", "running"}}

\* The first non-terminal story by story index, 0 when there is none.
NextStory(st, r) ==
  IF NonTerminalStories(st, r) = {} THEN 0
  ELSE CHOOSE k \in NonTerminalStories(st, r) : \A m \in NonTerminalStories(st, r) : k <= m

\* Pending steps of agent a, whatever the status of their run.
EligibleAnyRun(st, a) ==
  {e \in {<<r, i>> : r \in DOMAIN st.runs, i \in 1..MaxSteps} :
     /\ e[2] \in DOMAIN st.steps[e[1]]
     /\ st.steps[e[1]][e[2]].status = "pending"
     /\ st.steps[e[1]][e[2]].agent_id = a}

\* Steps of agent a that Claim may serve: pending, in a running run.
Eligible(st, a) ==
  {e \in {<<r, i>> : r \in DOMAIN st.runs, i \in 1..MaxSteps} :
     /\ e[2] \in DOMAIN st.steps[e[1]]
     /\ st.runs[e[1]].status = "running"
     /\ st.steps[e[1]][e[2]].status = "pending"
     /\ st.steps[e[1]][e[2]].agent_id = a}

\* Claim ordered by step index before run age.
ClaimBeforeByIndex(st, e, f) ==
  \/ st.steps[e[1]][e[2]].step_index < st.steps[f[1]][f[2]].step_index
  \/ /\ st.steps[e[1]][e[2]].step_index = st.steps[f[1]][f[2]].step_index
     /\ st.runs[e[1]].created_at <= st.runs[f[1]].created_at

\* run.created_at ASC, step.index ASC
ClaimBefore(st, e, f) ==
  \/ st.runs[e[1]].created_at < st.runs[f[1]].created_at
  \/ /\ st.runs[e[1]].created_at = st.runs[f[1]].created_at
     /\ st.steps[e[1]][e[2]].step_index <= st.steps[f[1]][f[2]].step_index

\* The eligible steps no other eligible step precedes (several only when two
\* runs were created at the same instant).
OldestEligible(st, a) ==
  {e \in Eligible(st, a) : \A f \in Eligible(st, a) : ClaimBefore(st, e, f)}

\* Claim that returns the step it found without marking it running.
claimEffectUnmarked(st, r, i, t) == st

\* The found step is marked running; a loop step is bound to its first
\* non-terminal story, which starts running.
claimEffect(st, r, i, t) ==
  LET sid == IF IsLoop(st.steps[r][i]) THEN NextStory(st, r) ELSE 0
  IN [st EXCEPT !.steps = [@ EXCEPT ![r][i].status = "running",
                                    ![r][i].claimed = TRUE,
                                    ![r][i].current_story_id = sid],
                !.stories = IF sid = 0 THEN @ ELSE [@ EXCEPT ![r][sid].status = "running"],
                !.runs = TouchSteps(@, r, t)]

\* Claim(agentId): find and mark in one transaction; NO_WORK without an
\* eligible step.
claimStep(a) ==
  /\ IF OldestEligible(Store, a) = {}
     THEN /\ out' = NO_WORK
          /\ Commit(Store)
     ELSE \E e \in OldestEligible(Store, a) :
            /\ Commit(claimEffect(Store, e[1], e[2], now))
            /\ out' = ClaimedOutput(e[1], steps[e[1]][e[2]].step_index)
  /\ UNCHANGED <<now, proc>>

\* Pipeline that activates the step after the next one.
advancePipelineSkip(st, r, i, n, t) ==
  IF i + 1 > Len(st.steps[r])
  THEN [st EXCEPT !.runs = [@ EXCEPT ![r].status = "completed", ![r].updated_at = t],
                  !.events = emitEvent(@, r, "run.completed")]
  ELSE IF i + 2 <= Len(st.steps[r])
  THEN [st EXCEPT !.steps = [@ EXCEPT ![r][i + 2].status = "pending"]]
  ELSE st

\* The pipeline moves past step i: the step at the next index goes from waiting
\* to pending (a loop step activated for the first time gets its n stories);
\* without a next step the run is completed.
advancePipeline(st, r, i, n, t) ==
  IF i + 1 > Len(st.steps[r])
  THEN [st EXCEPT !.runs = [@ EXCEPT ![r].status = "completed", ![r].updated_at = t],
                  !.events = emitEvent(@, r, "run.completed")]
  ELSE IF st.steps[r][i + 1].status = "waiting"
  THEN [st EXCEPT !.steps = [@ EXCEPT ![r][i + 1].status = "pending"],
                  !.stories = IF IsLoop(st.steps[r][i + 1]) /\ Len(st.stories[r]) = 0
                              THEN [@ EXCEPT ![r] = [k \in 1..n |->
                                                       [status |-> "pending", retry_count |-> 0]]]
                              ELSE @]
  ELSE st

\* The verdict on story sid is recorded: done, failed, or retry (back to pending
\* within the story's retry budget, failed beyond it).
settleStory(st, r, sid, verdict, budget) ==
  LET story == st.stories[r][sid]
      retried == [story EXCEPT !.retry_count = @ + 1,
                               !.status = IF story.retry_count + 1 <= budget
                                          THEN "pending" ELSE "failed"]
  IN [st EXCEPT !.stories =
        [@ EXCEPT ![r][sid] = IF verdict = "done" THEN [story EXCEPT !.status = "done"]
                              ELSE IF verdict = "failed" THEN [story EXCEPT !.status = "failed"]
                              ELSE retried]]

\* Loop step j and its verify step v (0: none) take the given statuses; the loop
\* step is bound to story sid.
setLoop(st, r, j, v, loopStatus, verifyStatus, sid) ==
  [st EXCEPT !.steps = [@ EXCEPT ![r] =
     [k \in DOMAIN st.steps[r] |->
        IF k = j THEN [st.steps[r][k] EXCEPT !.status = loopStatus, !.claimed = FALSE,
                                            !.current_story_id = sid]
        ELSE IF k = v THEN [st.steps[r][k] EXCEPT !.status = verifyStatus, !.claimed = FALSE]
        ELSE st.steps[r][k]]]]

\* Loop that ends after the story just settled.
continueLoopEarly(st, r, j, v, last, n, t) ==
  advancePipeline(setLoop(st, r, j, v, "done", "done", 0), r, last, n, t)

\* After a story of loop step j was settled: with a non-terminal story left the
\* loop step is pending again, bound to it (and its verify step waits again);
\* with none left the loop step (and its verify step) is done and the pipeline
\* moves past `last`.
continueLoop(st, r, j, v, last, n, t) ==
  IF NextStory(st, r) # 0
  THEN setLoop(st, r, j, v, "pending", "waiting", NextStory(st, r))
  ELSE advancePipeline(setLoop(st, r, j, v, "done", "done", 0), r, last, n, t)

\* Complete of a single step that verifies nothing: done, the pipeline advances.
completeSingle(st, r, i, n, t) ==
  advancePipeline([st EXCEPT !.steps = [@ EXCEPT ![r][i].status = "done",
                                                 ![r][i].claimed = FALSE,
                                                 ![r][i].output = "output"]],
                  r, i, n, t)

\* Complete of a loop step without verifyEach: the verdict settles the current
\* story and the loop continues or ends.
completeLoop(st, r, i, verdict, n, t) ==
  LET s == st.steps[r][i]
      settled == settleStory(st, r, s.current_story_id, verdict, LoopCfg(s).maxStoryRetries)
  IN continueLoop([settled EXCEPT !.steps = [@ EXCEPT ![r][i].output = "output"]],
                  r, i, 0, i, n, t)

\* Complete of a verifyEach loop step that marks the story done itself.
completeForVerifyDone(st, r, i) ==
  [st EXCEPT !.steps = [@ EXCEPT ![r][i].claimed = FALSE, ![r][i].status = "pending"],
             !.stories = [@ EXCEPT ![r][st.steps[r][i].current_story_id].status = "done"]]

\* Complete of a loop step with verifyEach: the story is not settled; the
\* worker has reported, and the paired verify step goes from waiting to pending.
completeForVerify(st, r, i) ==
  [st EXCEPT !.steps = [@ EXCEPT ![r] =
     [k \in DOMAIN st.steps[r] |->
        IF k = i THEN [st.steps[r][k] EXCEPT !.claimed = FALSE, !.output = "output"]
        ELSE IF /\ st.steps[r][k].step_id = LoopCfg(st.steps[r][i]).verifyStep
                /\ st.steps[r][k].status = "waiting"
        THEN [st.steps[r][k] EXCEPT !.status = "pending"]
        ELSE st.steps[r][k]]]]

\* Complete of the verify step paired with loop step j: the verdict settles the
\* story the loop step is bound to and the loop continues or ends.
completeVerify(st, r, i, j, verdict, n, t) ==
  LET loop == st.steps[r][j]
      settled == settleStory(st, r, loop.current_story_id, verdict, LoopCfg(loop).maxStoryRetries)
      last == IF i > j THEN i ELSE j
  IN continueLoop([settled EXCEPT !.steps = [@ EXCEPT ![r][i].output = "output"]],
                  r, j, i, last, n, t)

\* The loop steps a Complete of step i settles a story for: those paired with
\* it that wait for its verdict.
VerifiedLoops(st, r, i) ==
  {j \in PairedLoops(st, r, i) :
     /\ st.steps[r][j].status = "running"
     /\ st.steps[r][j].current_story_id # 0}

completeEffect(st, r, i, verdict, n, t) ==
  LET s == st.steps[r][i]
      done == IF IsLoop(s)
              THEN IF VerifyEach(s) THEN completeForVerify(st, r, i)
                   ELSE completeLoop(st, r, i, verdict, n, t)
              ELSE IF VerifiedLoops(st, r, i) # {}
              THEN completeVerify(st, r, i, CHOOSE j \in VerifiedLoops(st, r, i) : TRUE,
                                  verdict, n, t)
              ELSE completeSingle(st, r, i, n, t)
  IN [done EXCEPT !.runs = [TouchSteps(@, r, t) EXCEPT ![r].context = @ \cup {s.step_id}]]

\* Complete(stepId, output) by the worker that claimed step i of run r; verdict
\* is the status the output carries, n the number of stories it lists.
completeStep(r, i, verdict, n) ==
  /\ r \in RunIds
  /\ i \in StepIdx(r)
  /\ steps[r][i].status = "running"
  /\ steps[r][i].claimed
  /\ Commit(completeEffect(Store, r, i, verdict, n, now))
  /\ out' = NoOutput
  /\ UNCHANGED <<now, proc>>

\* Fail that gives up one retry early.
failEffectEarly(st, r, i, t) ==
  LET s == st.steps[r][i]
      retries == s.retry_count + 1
  IN IF retries < s.max_retries
     THEN [st EXCEPT !.steps = [@ EXCEPT ![r][i].retry_count = retries,
                                         ![r][i].status = "pending",
                                         ![r][i].claimed = FALSE],
                     !.runs = TouchSteps(@, r, t)]
     ELSE [st EXCEPT !.steps = [@ EXCEPT ![r][i].retry_count = retries,
                                         ![r][i].status = "failed",
                                         ![r][i].claimed = FALSE,
                                         ![r][i].output = "error"],
                     !.runs = FailRun(TouchSteps(@, r, t), r, t),
                     !.events = emitEvent(@, r, "run.failed")]

\* Fail that sweeps the open sibling steps along when the budget is exhausted.
failEffectSweep(st, r, i, t) ==
  LET s == st.steps[r][i]
      retries == s.retry_count + 1
  IN IF retries <= s.max_retries
     THEN [st EXCEPT !.steps = [@ EXCEPT ![r][i].retry_count = retries,
                                         ![r][i].status = "pending",
                                         ![r][i].claimed = FALSE],
                     !.runs = TouchSteps(@, r, t)]
     ELSE FailOpenSteps(
            [st EXCEPT !.steps = [@ EXCEPT ![r][i].retry_count = retries,
                                           ![r][i].claimed = FALSE,
                                           ![r][i].output = "error"],
                       !.runs = FailRun(TouchSteps(@, r, t), r, t),
                       !.events = emitEvent(@, r, "run.failed")],
            r, "error", t)

\* Fail: the retry count goes up by one; within the budget the step is pending
\* again, beyond it the step and the run are failed, the error text is stored
\* and run.failed is emitted.  Sibling steps and stories are left as they are.
failEffect(st, r, i, t) ==
  LET s == st.steps[r][i]
      retries == s.retry_count + 1
  IN IF retries <= s.max_retries
     THEN [st EXCEPT !.steps = [@ EXCEPT ![r][i].retry_count = retries,
                                         ![r][i].status = "pending",
                                         ![r][i].claimed = FALSE],
                     !.runs = TouchSteps(@, r, t)]
     ELSE [st EXCEPT !.steps = [@ EXCEPT ![r][i].retry_count = retries,
                                         ![r][i].status = "failed",
                                         ![r][i].claimed = FALSE,
                                         ![r][i].output = "error"],
                     !.runs = FailRun(TouchSteps(@, r, t), r, t),
                     !.events = emitEvent(@, r, "run.failed")]

\* Fail(stepId, errorText) by the worker that claimed step i of run r.
failStep(r, i) ==
  /\ r \in RunIds
  /\ i \in StepIdx(r)
  /\ steps[r][i].status = "running"
  /\ steps[r][i].claimed
  /\ Commit(failEffect(Store, r, i, now))
  /\ out' = NoOutput
  /\ UNCHANGED <<now, proc>>

\* ------------------------------------------------- probe (cli.ts:365-379)
\* The order of pendingRows: ORDER BY r.created_at ASC, s.step_index ASC
ProbeBefore(st, e, f) ==
  \/ st.runs[e[1]].created_at < st.runs[f[1]].created_at
  \/ /\ st.runs[e[1]].created_at = st.runs[f[1]].created_at
     /\ st.steps[e[1]][e[2]].step_index <= st.steps[f[1]][f[2]].step_index

\* The rows of pendingRows: WHERE s.agent_id = a AND s.status = 'pending'
\* AND r.status = 'running'
PendingRows(st, a) ==
  {e \in {<<r, i>> : r \in DOMAIN st.runs, i \in 1..MaxSteps} :
     /\ e[2] \in DOMAIN st.steps[e[1]]
     /\ st.steps[e[1]][e[2]].agent_id = a
     /\ st.steps[e[1]][e[2]].status = "pending"
     /\ st.runs[e[1]].status = "running"}

\* The rows that may come first in the queue probe prints.
ProbeHead(st, a) ==
  {e \in PendingRows(st, a) : \A f \in PendingRows(st, a) : ProbeBefore(st, e, f)}

\* ----------------------------------------- cleanup-stale (cli.ts:530-669)
\* A scan that does not count the running steps.
StaleRunsAnySteps(st, wf, nowMs) ==
  {r \in DOMAIN st.runs :
     /\ st.runs[r].status = "running"
     /\ (wf = "ALL" \/ st.runs[r].workflow_id = wf)
     /\ ~(LastActivityMs(st, r) <= 0)
     /\ (nowMs - LastActivityMs(st, r)) > StaleThresholdMs}

\* cli.ts:550-609: the running runs (of workflow wf, or of all with "ALL") found stale
StaleRuns(st, wf, nowMs) ==
  {r \in DOMAIN st.runs :
     /\ st.runs[r].status = "running"
     /\ (wf = "ALL" \/ st.runs[r].workflow_id = wf)
     /\ ~(LastActivityMs(st, r) <= 0)
     /\ RunningSteps(st, r) = 0
     /\ (nowMs - LastActivityMs(st, r)) > StaleThresholdMs}

\* cli.ts:631: UPDATE runs SET status = 'failed' ... WHERE id = r AND status = 'running'
FailRunningRun(rs, r, t) == IF rs[r].status = "running" THEN FailRun(rs, r, t) ELSE rs

\* A batch that fails its first run only.
FailStaleRunsFirst(st, stale, t) ==
  IF stale = {} THEN st
  ELSE LET r == CHOOSE x \in stale : \A y \in stale : x <= y
       IN FailOpenSteps([st EXCEPT !.runs = FailRunningRun(@, r, t)], r, "stale", t)

\* cli.ts:627-642: one transaction over the stale runs
RECURSIVE FailStaleRuns(_, _, _)
FailStaleRuns(st, stale, t) ==
  IF stale = {} THEN st
  ELSE LET r == CHOOSE x \in stale : \A y \in stale : x <= y
       IN FailStaleRuns(
            FailOpenSteps([st EXCEPT !.runs = FailRunningRun(@, r, t)], r, "stale", t),
            stale \ {r}, t)

\* cli.ts:644-653
RECURSIVE EmitRunFailed(_, _)
EmitRunFailed(ev, stale) ==
  IF stale = {} THEN ev
  ELSE LET r == CHOOSE x \in stale : TRUE
       IN EmitRunFailed(emitEvent(ev, r, "run.failed"), stale \ {r})

\* agent-cron.ts:264-270
countActiveRuns(rs, w) ==
  Cardinality({r \in DOMAIN rs : rs[r].workflow_id = w /\ rs[r].status = "running"})

\* The workflow ids as characters.  The id of w3 is a proper prefix of the id
\* of w2, as "dev" is of "dev2".
WorkflowIdChars(w) ==
  IF w = "w3" THEN <<"d">> ELSE IF w = "w2" THEN <<"d", "2">> ELSE <<"e">>

\* agent-cron.ts:213: cronName = `antfarm/${workflow.id}/driver`
cronName(w) == <<"antfarm", "/">> \o WorkflowIdChars(w) \o <<"/", "driver">>

\* A prefix that stops at the workflow id.
cronPrefixNoSlash(w) == <<"antfarm", "/">> \o WorkflowIdChars(w)

\* agent-cron.ts:232: `antfarm/${workflowId}/`
cronPrefix(w) == <<"antfarm", "/">> \o WorkflowIdChars(w) \o <<"/">>

\* String.prototype.startsWith
startsWith(s, prefix) ==
  Len(prefix) <= Len(s) /\ SubSeq(s, 1, Len(prefix)) = prefix

\* agent-cron.ts:231-233, gateway-api.ts:401-411: every job whose name starts
\* with the prefix is deleted, job by job and best effort: left jobs remain
removeAgentCrons(cr, w, left) ==
  [v \in DOMAIN cr |->
     IF startsWith(cronName(v), cronPrefix(w)) /\ left < cr[v] THEN left ELSE cr[v]]

\* A teardown that does not look at the runs.
teardownWorkflowCronsAlways(st, w, left) ==
  [st EXCEPT !.crons = removeAgentCrons(@, w, left)]

\* agent-cron.ts:302-306
teardownWorkflowCronsIfIdle(st, w, left) ==
  IF countActiveRuns(st.runs, w) > 0 THEN st
  ELSE [st EXCEPT !.crons = removeAgentCrons(@, w, left)]

RECURSIVE TeardownAll(_, _, _)
TeardownAll(st, ws, left) ==
  IF ws = {} THEN st
  ELSE LET w == CHOOSE x \in ws : TRUE
       IN TeardownAll(teardownWorkflowCronsIfIdle(st, w, left), ws \ {w}, left)

\* cli.ts:625-661: the transaction over the runs found stale, the events, the
\* teardown of the crons of their workflows
cleanupUpdate(st, stale, left, t) ==
  LET failed == FailStaleRuns(st, stale, t)
      logged == [failed EXCEPT !.events = EmitRunFailed(@, stale)]
  IN TeardownAll(logged, {st.runs[r].workflow_id : r \in stale}, left)

\* A command that ignores --dry-run.
cleanupStaleAlways(st, wf, dryRun, left, t) ==
  LET stale == StaleRuns(st, wf, t)
  IN IF stale = {} THEN st ELSE cleanupUpdate(st, stale, left, t)

\* cli.ts:530-669 as one uninterrupted command
cleanupStale(st, wf, dryRun, left, t) ==
  LET stale == StaleRuns(st, wf, t)
  IN IF stale = {} \/ dryRun THEN st ELSE cleanupUpdate(st, stale, left, t)

\* cli.ts:611-623: what the command prints
cleanupOut(st, wf, dryRun, t) ==
  IF dryRun /\ StaleRuns(st, wf, t) # {} THEN DryRunOutput(StaleRuns(st, wf, t)) ELSE NoOutput

CleanupStale(wf, dryRun, left) ==
  /\ Commit(cleanupStale(Store, wf, dryRun, left, now))
  /\ out' = cleanupOut(Store, wf, dryRun, now)
  /\ UNCHANGED <<now, proc>>

\* The same command as the steps other commands can interleave with.
\* cli.ts:546-623: the scan; without a stale run, or with --dry-run, it ends here
CleanupScan(p, wf, dryRun) ==
  /\ proc[p].pc = "idle"
  /\ LET stale == StaleRuns(Store, wf, now)
     IN proc' = IF stale = {} \/ dryRun THEN proc
                ELSE [proc EXCEPT ![p] = [pc |-> "scanned", workflow |-> wf,
                                          allowConcurrent |-> FALSE, now |-> now,
                                          runId |-> 0, staleRuns |-> stale]]
  /\ Commit(Store)
  /\ out' = cleanupOut(Store, wf, dryRun, now)
  /\ UNCHANGED now

\* cli.ts:625-668: the transaction (ok: it commits; otherwise ROLLBACK and the
\* command throws), then the events and the teardown
CleanupUpdate(p, ok, left) ==
  /\ proc[p].pc = "scanned"
  /\ IF ok THEN Commit(cleanupUpdate(Store, proc[p].staleRuns, left, now))
     ELSE Commit(Store)
  /\ proc' = [proc EXCEPT ![p] = IdleProc]
  /\ out' = NoOutput
  /\ UNCHANGED now

\* ------------------------------------------------ resume (cli.ts:727-831)
FailedSteps(st, r) == {i \in DOMAIN st.steps[r] : st.steps[r][i].status = "failed"}

\* cli.ts:743-745: ... WHERE status = 'failed' ORDER BY step_index ASC LIMIT 1
FirstFailedStep(st, r) ==
  CHOOSE i \in FailedSteps(st, r) : \A k \in FailedSteps(st, r) : i <= k

FailedStories(st, r) == {k \in DOMAIN st.stories[r] : st.stories[r][k].status = "failed"}

\* cli.ts:753-762
ResumeStoryReset(st, r, failedStep) ==
  IF st.steps[r][failedStep].type = "loop" /\ FailedStories(st, r) # {}
  THEN LET failedStory == CHOOSE k \in FailedStories(st, r) :
                            \A m \in FailedStories(st, r) : k <= m
       IN [st EXCEPT !.stories = [@ EXCEPT ![r][failedStory].status = "pending"]]
  ELSE st

\* cli.ts:765-767: ... WHERE type = 'loop' AND status IN ('running','failed') LIMIT 1
ResumeLoopSteps(st, r) ==
  {j \in DOMAIN st.steps[r] :
     st.steps[r][j].type = "loop" /\ st.steps[r][j].status \in {"running", "failed"}}

\* cli.ts:769-771
IsVerifyOf(st, r, failedStep, loopStep) ==
  /\ st.steps[r][loopStep].loop_config # {}
  /\ LoopCfg(st.steps[r][loopStep]).verifyEach
  /\ LoopCfg(st.steps[r][loopStep]).verifyStep = st.steps[r][failedStep].step_id

\* Resume that makes the verify step pending along with the loop step.
ResumeVerifyBranchPending(st, r, failedStep, loopStep, t) ==
  [st EXCEPT
     !.steps = [@ EXCEPT ![r] = [k \in DOMAIN st.steps[r] |->
                  IF k \in {loopStep, failedStep}
                  THEN [st.steps[r][k] EXCEPT !.status = "pending", !.current_story_id = 0,
                                              !.claimed = FALSE]
                  ELSE st.steps[r][k]]],
     !.stories = [@ EXCEPT ![r] = [k \in DOMAIN st.stories[r] |->
                     IF st.stories[r][k].status = "failed"
                     THEN [st.stories[r][k] EXCEPT !.status = "pending"]
                     ELSE st.stories[r][k]]],
     !.runs = [@ EXCEPT ![r].steps_updated_at = t, ![r].status = "running", ![r].updated_at = t]]

\* cli.ts:773-788
ResumeVerifyBranch(st, r, failedStep, loopStep, t) ==
  LET loopReset == [st EXCEPT !.steps = [@ EXCEPT ![r][loopStep].status = "pending",
                                                  ![r][loopStep].current_story_id = 0,
                                                  ![r][loopStep].claimed = FALSE]]
      verifyReset == [loopReset EXCEPT !.steps = [@ EXCEPT ![r][failedStep].status = "waiting",
                                                           ![r][failedStep].current_story_id = 0,
                                                           ![r][failedStep].claimed = FALSE]]
  IN [verifyReset EXCEPT
        !.stories = [@ EXCEPT ![r] = [k \in DOMAIN st.stories[r] |->
                        IF st.stories[r][k].status = "failed"
                        THEN [st.stories[r][k] EXCEPT !.status = "pending"]
                        ELSE st.stories[r][k]]],
        !.runs = [TouchSteps(@, r, t) EXCEPT ![r].status = "running", ![r].updated_at = t]]

\* Resume that makes every failed step pending.
ResumePlainBranchAll(st, r, failedStep, t) ==
  [st EXCEPT !.steps = [@ EXCEPT ![r] = [k \in DOMAIN st.steps[r] |->
                          IF st.steps[r][k].status = "failed"
                          THEN [st.steps[r][k] EXCEPT !.status = "pending",
                                                      !.current_story_id = 0,
                                                      !.claimed = FALSE]
                          ELSE st.steps[r][k]]],
             !.runs = [TouchSteps(@, r, t) EXCEPT ![r].status = "running", ![r].updated_at = t]]

\* Resume that also rewinds the failed steps after the failed step to waiting.
ResumePlainBranchRewind(st, r, failedStep, t) ==
  [st EXCEPT !.steps = [@ EXCEPT ![r] = [k \in DOMAIN st.steps[r] |->
                          IF k = failedStep
                          THEN [st.steps[r][k] EXCEPT !.status = "pending",
                                                      !.current_story_id = 0,
                                                      !.claimed = FALSE]
                          ELSE IF k > failedStep /\ st.steps[r][k].status = "failed"
                          THEN [st.steps[r][k] EXCEPT !.status = "waiting"]
                          ELSE st.steps[r][k]]],
             !.runs = [@ EXCEPT ![r].steps_updated_at = t, ![r].status = "running",
                                ![r].updated_at = t]]

\* Resume that hands the failed step back as new: no output, no retry used.
ResumePlainBranchFresh(st, r, failedStep, t) ==
  [st EXCEPT !.steps = [@ EXCEPT ![r][failedStep].status = "pending",
                                 ![r][failedStep].current_story_id = 0,
                                 ![r][failedStep].claimed = FALSE,
                                 ![r][failedStep].output = "NULL",
                                 ![r][failedStep].retry_count = 0],
             !.runs = [@ EXCEPT ![r].steps_updated_at = t, ![r].status = "running",
                                ![r].updated_at = t]]

\* Resume that gives the failed step its retry budget back.
ResumePlainBranchRetriesReset(st, r, failedStep, t) ==
  [st EXCEPT !.steps = [@ EXCEPT ![r][failedStep].status = "pending",
                                 ![r][failedStep].current_story_id = 0,
                                 ![r][failedStep].claimed = FALSE,
                                 ![r][failedStep].retry_count = 0],
             !.runs = [TouchSteps(@, r, t) EXCEPT ![r].status = "running", ![r].updated_at = t]]

\* cli.ts:807-815
ResumePlainBranch(st, r, failedStep, t) ==
  [st EXCEPT !.steps = [@ EXCEPT ![r][failedStep].status = "pending",
                                 ![r][failedStep].current_story_id = 0,
                                 ![r][failedStep].claimed = FALSE],
             !.runs = [TouchSteps(@, r, t) EXCEPT ![r].status = "running", ![r].updated_at = t]]

\* The rows after resume, loopStep being the row the LIMIT 1 query returned (0: none)
resumeRows(st, r, loopStep, t) ==
  LET failedStep == FirstFailedStep(st, r)
      reset == ResumeStoryReset(st, r, failedStep)
  IN IF loopStep # 0 /\ IsVerifyOf(reset, r, failedStep, loopStep)
     THEN ResumeVerifyBranch(reset, r, failedStep, loopStep, t)
     ELSE ResumePlainBranch(reset, r, failedStep, t)

\* cli.ts:790-800, 817-827: a failure to arm the crons only prints a warning
resumeCrons(st, w, outcome) == ensureWorkflowCrons(st, w, outcome)

\* Resume that does not look at the status of the run.
ResumeRejectedAnyStatus(st, target) ==
  \/ target \notin DOMAIN st.runs
  \/ FailedSteps(st, target) = {}

\* cli.ts:732-750: no run matches the target, the run is not failed, or it has
\* no failed step: the command prints an error and exits with status 1
ResumeRejected(st, target) ==
  \/ target \notin DOMAIN st.runs
  \/ st.runs[target].status # "failed"
  \/ FailedSteps(st, target) = {}

\* cli.ts:727-831: the store after `workflow resume <target>`
resumeStore(st, target, loopStep, outcome, t) ==
  IF ResumeRejected(st, target) THEN st
  ELSE [resumeCrons(resumeRows(st, target, loopStep, t), st.runs[target].workflow_id, outcome)
          EXCEPT !.resumes = [@ EXCEPT ![target] = @ + 1]]

\* what it reports: RESUME_ERROR on stderr, or the line "Resumed run ..."
resumeOut(st, target) == IF ResumeRejected(st, target) THEN RESUME_ERROR ELSE NoOutput

\* The loop-step rows the query of cli.ts:765-767 may return (0: none)
ResumeLoopStepChoice(st, target) ==
  IF ResumeRejected(st, target) \/ ResumeLoopSteps(st, target) = {} THEN {0}
  ELSE ResumeLoopSteps(st, target)

\* The outcomes the arming of the crons may have (none is attempted on an error)
ResumeCronOutcomes(st, target, loopStep, t) ==
  IF ResumeRejected(st, target) THEN {"exists"}
  ELSE EnsureCronsOutcomes(resumeRows(st, target, loopStep, t), st.runs[target].workflow_id)

Resume(r, outcome) ==
  /\ IF ResumeRejected(Store, r) THEN TRUE ELSE resumes[r] < MaxResumes
  /\ \E loopStep \in ResumeLoopStepChoice(Store, r) :
       /\ outcome \in ResumeCronOutcomes(Store, r, loopStep, now)
       /\ Commit(resumeStore(Store, r, loopStep, outcome, now))
  /\ out' = resumeOut(Store, r)
  /\ UNCHANGED <<now, proc>>

\* ------------------------------------------------------------ specification
CronOutcomes == {"exists", "created", "failed"}

Next ==
  \/ Tick
  \/ \E w \in Workflows, allow \in BOOLEAN, insertOk \in BOOLEAN, outcome \in CronOutcomes :
       Len(runs) < MaxRuns /\ RunWorkflow(w, allow, insertOk, outcome)
  \/ \E a \in Agents : claimStep(a)
  \/ \E r \in 1..MaxRuns, i \in 1..MaxSteps, verdict \in Verdicts, n \in 1..MaxStories :
       completeStep(r, i, verdict, n)
  \/ \E r \in 1..MaxRuns, i \in 1..MaxSteps : failStep(r, i)
  \/ \E wf \in Workflows \cup {"ALL"}, dryRun \in BOOLEAN, left \in 0..MaxCrons :
       CleanupStale(wf, dryRun, left)
  \/ \E r \in 1..MaxRuns, outcome \in CronOutcomes : Resume(r, outcome)

Spec == Init /\ [][Next]_vars

\* Several runs of the small workflow queue work for one agent.
QueueWorkflows == {"w3"}

NextQueue ==
  \/ Tick
  \/ \E w \in QueueWorkflows, allow \in BOOLEAN, insertOk \in BOOLEAN, outcome \in CronOutcomes :
       Len(runs) < MaxQueueRuns /\ RunWorkflow(w, allow, insertOk, outcome)
  \/ \E a \in Agents : claimStep(a)
  \/ \E r \in 1..MaxQueueRuns, i \in 1..MaxSteps, verdict \in Verdicts, n \in 1..MaxStories :
       completeStep(r, i, verdict, n)
  \/ \E r \in 1..MaxQueueRuns, i \in 1..MaxSteps : failStep(r, i)

SpecQueue == Init /\ [][NextQueue]_vars

\* Concurrent `workflow run` commands: each process runs runWorkflow step by step.
InFlight == Cardinality({q \in Procs : proc[q].pc = "checked"})

NextRace ==
  \/ Tick
  \/ \E p \in Procs, w \in Workflows, allow \in BOOLEAN :
       Len(runs) + InFlight < MaxRaceRuns /\ RunCheck(p, w, allow)
  \/ \E p \in Procs, ok \in BOOLEAN : RunInsert(p, ok)
  \/ \E p \in Procs, outcome \in CronOutcomes : RunCrons(p, outcome)

SpecRace == Init /\ [][NextRace]_vars

\* Stale runs: several runs of the small workflow, runWorkflow's recovery, the
\* stale monitor as one command, resume.  --allow-concurrent is passed only
\* while the workflow has a running run; a `workflow run` whose insert fails is
\* possible at any time; the small workflow has no loop, so a Complete carries
\* no verdict on a story and lists none.
StaleWorkflows == {"w3"}

NextStale ==
  \/ Tick
  \/ \E w \in StaleWorkflows, allow \in BOOLEAN, insertOk \in BOOLEAN, outcome \in CronOutcomes :
       /\ IF insertOk THEN Len(runs) < MaxStaleRuns ELSE TRUE
       /\ allow => ActiveRuns(Store, w) # {}
       /\ RunWorkflow(w, allow, insertOk, outcome)
  \/ \E a \in Agents : claimStep(a)
  \/ \E r \in 1..MaxStaleRuns, i \in 1..MaxSteps : completeStep(r, i, "done", 1)
  \/ \E r \in 1..MaxStaleRuns, i \in 1..MaxSteps : failStep(r, i)
  \/ \E wf \in StaleWorkflows \cup {"ALL"}, dryRun \in BOOLEAN, left \in 0..MaxCrons :
       CleanupStale(wf, dryRun, left)
  \/ \E r \in 1..MaxStaleRuns, outcome \in CronOutcomes : Resume(r, outcome)

SpecStale == Init /\ [][NextStale]_vars

\* The stale monitor next to the workers: its scan and its update are separate
\* steps, and Claim, Complete and Fail may come between them.
CleanupProcs == {"p1"}

NextSweep ==
  \/ Tick
  \/ \E w \in StaleWorkflows, allow \in BOOLEAN, insertOk \in BOOLEAN, outcome \in CronOutcomes :
       Len(runs) < MaxStaleRuns /\ RunWorkflow(w, allow, insertOk, outcome)
  \/ \E a \in Agents : claimStep(a)
  \/ \E r \in 1..MaxStaleRuns, i \in 1..MaxSteps, verdict \in Verdicts, n \in 1..MaxStories :
       completeStep(r, i, verdict, n)
  \/ \E r \in 1..MaxStaleRuns, i \in 1..MaxSteps : failStep(r, i)
  \/ \E p \in CleanupProcs, wf \in StaleWorkflows \cup {"ALL"}, dryRun \in BOOLEAN :
       CleanupScan(p, wf, dryRun)
  \/ \E p \in CleanupProcs, ok \in BOOLEAN, left \in 0..MaxCrons : CleanupUpdate(p, ok, left)

SpecSweep == Init /\ [][NextSweep]_vars

\* The cron lifecycle, the answers of the gateway being inputs: workflows are
\* started, swept and resumed by one command after the other.
\* agent-cron.ts:275-280: a failed listing counts as "no job"
workflowCronsExist(st, w, listOk) == listOk /\ st.crons[w] > 0

\* agent-cron.ts:286-296: what ensureWorkflowCrons does, given whether the
\* listing, the preflight and the creation of the driver cron succeed
ensureOutcome(st, w, listOk, preflightOk, createOk) ==
  IF workflowCronsExist(st, w, listOk) THEN "exists"
  ELSE IF preflightOk /\ createOk THEN "created"
  ELSE "failed"

\* run.ts:25-189 as one call
RunWorkflowVia(w, allow, listOk, preflightOk, createOk) ==
  /\ \E c \in CheckOutcomes(Store, w, allow, now) :
       IF c.ok
       THEN Commit(ArmCrons(InsertRun(c.st, w, allow, now), Len(runs) + 1, w,
                            ensureOutcome(c.st, w, listOk, preflightOk, createOk), now))
       ELSE Commit(c.st)
  /\ out' = NoOutput
  /\ UNCHANGED <<now, proc>>

\* cli.ts:727-831 as one command
ResumeVia(r, listOk, preflightOk, createOk) ==
  /\ IF ResumeRejected(Store, r) THEN TRUE ELSE resumes[r] < MaxResumes
  /\ \E loopStep \in ResumeLoopStepChoice(Store, r) :
       Commit(resumeStore(Store, r, loopStep,
                IF ResumeRejected(Store, r) THEN "exists"
                ELSE ensureOutcome(resumeRows(Store, r, loopStep, now), runs[r].workflow_id,
                                   listOk, preflightOk, createOk),
                now))
  /\ out' = resumeOut(Store, r)
  /\ UNCHANGED <<now, proc>>

ArmWorkflows == {"w2", "w3"}

NextArm ==
  \/ Tick
  \/ \E w \in ArmWorkflows, allow \in BOOLEAN,
        listOk \in BOOLEAN, preflightOk \in BOOLEAN, createOk \in BOOLEAN :
       /\ Len(runs) < MaxArmRuns
       /\ crons[w] < MaxArmCrons
       /\ allow => ActiveRuns(Store, w) # {}
       /\ RunWorkflowVia(w, allow, listOk, preflightOk, createOk)
  \/ \E a \in Agents : claimStep(a)
  \/ \E r \in 1..MaxArmRuns, i \in 1..MaxSteps : failStep(r, i)
  \/ \E wf \in ArmWorkflows \cup {"ALL"}, dryRun \in BOOLEAN, left \in 0..MaxCrons :
       CleanupStale(wf, dryRun, left)
  \/ \E r \in 1..MaxArmRuns, listOk \in BOOLEAN, preflightOk \in BOOLEAN, createOk \in BOOLEAN :
       /\ \A w \in ArmWorkflows : crons[w] < MaxArmCrons
       /\ ResumeVia(r, listOk, preflightOk, createOk)

SpecArm == Init /\ [][NextArm]_vars

\* Resume as the statements other processes can interleave with: it opens no
\* transaction, so each UPDATE commits on its own.
\* cli.ts:752-788, 807-810: the story and step rows are reset; the run row is
\* not written yet
resumeStepRows(st, r, loopStep, t) ==
  [resumeRows(st, r, loopStep, t) EXCEPT !.runs = [@ EXCEPT ![r].status = st.runs[r].status,
                                                             ![r].updated_at = st.runs[r].updated_at]]

\* cli.ts:785-788, 812-815: UPDATE runs SET status = 'running' ... WHERE id = ?
resumeRunRow(st, r, t) ==
  [st EXCEPT !.runs = [@ EXCEPT ![r].status = "running", ![r].updated_at = t]]

\* cli.ts:727-783, 807-810: the lookups, the exits with an error, the resets
ResumeSteps(p, r) ==
  /\ proc[p].pc = "idle"
  /\ IF ResumeRejected(Store, r)
     THEN /\ Commit(Store)
          /\ proc' = proc
     ELSE /\ resumes[r] < MaxResumes
          /\ \E loopStep \in ResumeLoopStepChoice(Store, r) :
               Commit(resumeStepRows(Store, r, loopStep, now))
          /\ proc' = [proc EXCEPT ![p] = [IdleProc EXCEPT !.pc = "resuming", !.runId = r,
                                                           !.workflow = runs[r].workflow_id]]
  /\ out' = resumeOut(Store, r)
  /\ UNCHANGED now

\* cli.ts:785-803, 812-830: the run row, then the crons
ResumeRun(p, outcome) ==
  /\ proc[p].pc = "resuming"
  /\ LET r == proc[p].runId
         st == resumeRunRow(Store, r, now)
     IN /\ outcome \in EnsureCronsOutcomes(st, proc[p].workflow)
        /\ Commit([resumeCrons(st, proc[p].workflow, outcome)
                     EXCEPT !.resumes = [@ EXCEPT ![r] = @ + 1]])
  /\ proc' = [proc EXCEPT ![p] = IdleProc]
  /\ out' = NoOutput
  /\ UNCHANGED now

\* The process is killed between the two: what it committed stays.
ResumeCrash(p) ==
  /\ proc[p].pc = "resuming"
  /\ proc' = [proc EXCEPT ![p] = IdleProc]
  /\ out' = NoOutput
  /\ UNCHANGED <<now, runs, steps, stories, events, crons, resumes>>

NextResume ==
  \/ Tick
  \/ \E w \in StaleWorkflows, insertOk \in BOOLEAN, outcome \in CronOutcomes :
       Len(runs) < MaxRuns /\ RunWorkflow(w, FALSE, insertOk, outcome)
  \/ \E a \in Agents : claimStep(a)
  \/ \E r \in 1..MaxRuns, i \in 1..MaxSteps : failStep(r, i)
  \/ \E wf \in StaleWorkflows, left \in 0..MaxCrons : CleanupStale(wf, FALSE, left)
  \/ \E p \in Procs, r \in 1..MaxRuns : ResumeSteps(p, r)
  \/ \E p \in Procs, outcome \in CronOutcomes : ResumeRun(p, outcome)
  \/ \E p \in Procs : ResumeCrash(p)

SpecResume == Init /\ [][NextResume]_vars

\* The stale recoveries with the emission of their events as a step of its own;
\* emitEvent may throw (emitOk false, or after the first emitted events).
\* A transaction that also logs the event.
StaleCommitEmitting(st, activeRun, t) == StaleRecover(st, activeRun, t)

\* run.ts:95-110: the transaction of the stale recovery
StaleCommit(st, activeRun, t) ==
  FailOpenSteps([st EXCEPT !.runs = FailRun(@, activeRun, t)], activeRun, "stale", t)

\* run.ts:31-110, 120-133: the active-run check up to COMMIT
RunScan(p, w, allow) ==
  /\ proc[p].pc = "idle"
  /\ IF allow \/ ActiveRuns(Store, w) = {}
     THEN /\ Commit(Store)
          /\ proc' = [proc EXCEPT ![p] = [IdleProc EXCEPT !.pc = "checked", !.workflow = w,
                                                           !.allowConcurrent = allow,
                                                           !.now = now]]
     ELSE \E activeRun \in ActiveRuns(Store, w) :
            IF IsStale(Store, activeRun, now)
            THEN /\ Commit(StaleCommit(Store, activeRun, now))
                 /\ proc' = [proc EXCEPT ![p] = [IdleProc EXCEPT !.pc = "recovered",
                                                                  !.workflow = w,
                                                                  !.allowConcurrent = allow,
                                                                  !.now = now,
                                                                  !.runId = activeRun]]
            ELSE /\ Commit(Store)
                 /\ proc' = proc
  /\ out' = NoOutput
  /\ UNCHANGED now

\* run.ts:112-118: emitEvent after COMMIT; if it throws, runWorkflow throws
RunEmit(p, emitOk) ==
  /\ proc[p].pc = "recovered"
  /\ IF emitOk
     THEN /\ events' = emitEvent(events, proc[p].runId, "run.failed")
          /\ proc' = [proc EXCEPT ![p].pc = "checked", ![p].runId = 0]
     ELSE /\ events' = events
          /\ proc' = [proc EXCEPT ![p] = IdleProc]
  /\ out' = NoOutput
  /\ UNCHANGED <<now, runs, steps, stories, crons, resumes>>

\* cli.ts:625-642: the transaction of cleanup-stale (ok: it commits)
CleanupCommit(p, ok) ==
  /\ proc[p].pc = "scanned"
  /\ IF ok
     THEN /\ Commit(FailStaleRuns(Store, proc[p].staleRuns, now))
          /\ proc' = [proc EXCEPT ![p].pc = "committed"]
     ELSE /\ Commit(Store)
          /\ proc' = [proc EXCEPT ![p] = IdleProc]
  /\ out' = NoOutput
  /\ UNCHANGED now

\* The first k of the stale runs, in the order of the scan.
FirstRuns(stale, k) == {r \in stale : Cardinality({q \in stale : q < r}) < k}

\* cli.ts:644-661: the events, one per scanned run; emitEvent throws after k of
\* them, or all are emitted and the crons are torn down
CleanupEmit(p, k, left) ==
  /\ proc[p].pc = "committed"
  /\ k <= Cardinality(proc[p].staleRuns)
  /\ LET stale == proc[p].staleRuns
         logged == [Store EXCEPT !.events = EmitRunFailed(@, FirstRuns(stale, k))]
     IN IF k = Cardinality(stale)
        THEN Commit(TeardownAll(logged, {runs[r].workflow_id : r \in stale}, left))
        ELSE Commit(logged)
  /\ proc' = [proc EXCEPT ![p] = IdleProc]
  /\ out' = NoOutput
  /\ UNCHANGED now

InFlightEmit == Cardinality({q \in Procs : proc[q].pc \in {"checked", "recovered"}})

NextEmit ==
  \/ Tick
  \/ \E p \in Procs, w \in StaleWorkflows, allow \in BOOLEAN :
       /\ Len(runs) + InFlightEmit < MaxStaleRuns
       /\ allow => ActiveRuns(Store, w) # {}
       /\ RunScan(p, w, allow)
  \/ \E p \in Procs, emitOk \in BOOLEAN : RunEmit(p, emitOk)
  \/ \E p \in Procs : RunInsert(p, TRUE)
  \/ \E p \in Procs, outcome \in CronOutcomes : RunCrons(p, outcome)
  \/ \E a \in Agents : claimStep(a)
  \/ \E p \in Procs, wf \in StaleWorkflows : CleanupScan(p, wf, FALSE)
  \/ \E p \in Procs, ok \in BOOLEAN : CleanupCommit(p, ok)
  \/ \E p \in Procs, k \in 0..MaxStaleRuns, left \in 0..MaxCrons : CleanupEmit(p, k, left)

SpecEmit == Init /\ [][NextEmit]_vars

\* runWorkflow's stale recovery as the statements other processes can interleave
\* with: the SELECT of the active run is made before BEGIN.
\* run.ts:37-91, 120-133: the oldest running run is read and classified
RunSelect(p, w, allow) ==
  /\ proc[p].pc = "idle"
  /\ IF allow \/ ActiveRuns(Store, w) = {}
     THEN proc' = [proc EXCEPT ![p] = [IdleProc EXCEPT !.pc = "checked", !.workflow = w,
                                                       !.allowConcurrent = allow,
                                                       !.now = now]]
     ELSE \E activeRun \in ActiveRuns(Store, w) :
            proc' = IF IsStale(Store, activeRun, now)
                    THEN [proc EXCEPT ![p] = [IdleProc EXCEPT !.pc = "stale", !.workflow = w,
                                                              !.allowConcurrent = allow,
                                                              !.now = now,
                                                              !.runId = activeRun]]
                    ELSE proc
  /\ out' = NoOutput
  /\ UNCHANGED <<now, runs, steps, stories, events, crons, resumes>>

\* run.ts:93-118: the transaction on the run read before, and its event
RunRecover(p) ==
  /\ proc[p].pc = "stale"
  /\ Commit(StaleRecover(Store, proc[p].runId, now))
  /\ proc' = [proc EXCEPT ![p].pc = "checked", ![p].runId = 0]
  /\ out' = NoOutput
  /\ UNCHANGED now

\* Every command that writes a run status, each as the steps it is made of.
\* Once MaxRuns runs exist the insert of a further run fails.
NextTerminal ==
  \/ Tick
  \/ \E p \in Procs, w \in StaleWorkflows : RunSelect(p, w, FALSE)
  \/ \E p \in Procs : RunRecover(p)
  \/ \E p \in Procs : RunInsert(p, Len(runs) < MaxRuns)
  \/ \E p \in Procs, outcome \in CronOutcomes : RunCrons(p, outcome)
  \/ \E a \in Agents : claimStep(a)
  \/ \E r \in 1..MaxRuns, i \in 1..MaxSteps : completeStep(r, i, "done", 1)
  \/ \E r \in 1..MaxRuns, i \in 1..MaxSteps : failStep(r, i)
  \/ \E p \in Procs, wf \in StaleWorkflows : CleanupScan(p, wf, FALSE)
  \/ \E p \in Procs : CleanupUpdate(p, TRUE, 0)
  \/ \E p \in Procs, r \in 1..MaxRuns : ResumeSteps(p, r)
  \/ \E p \in Procs, outcome \in CronOutcomes : ResumeRun(p, outcome)

SpecTerminal == Init /\ [][NextTerminal]_vars

\* The cron lifecycle as the gateway calls other processes can interleave with.
\* agent-cron.ts:275-287: the jobs are listed; with a job of the workflow
\* ensureWorkflowCrons returns and runWorkflow emits run.started (run.ts:180)
EnsureList(p, listOk) ==
  /\ proc[p].pc = "inserted"
  /\ IF workflowCronsExist(Store, proc[p].workflow, listOk)
     THEN /\ Commit(ArmCrons(Store, proc[p].runId, proc[p].workflow, "exists", now))
          /\ proc' = [proc EXCEPT ![p] = IdleProc]
     ELSE /\ Commit(Store)
          /\ proc' = [proc EXCEPT ![p].pc = "arming"]
  /\ out' = NoOutput
  /\ UNCHANGED now

\* agent-cron.ts:289-295, run.ts:169-180: the preflight and the creation of the
\* driver cron (ok: both succeed); on failure the new run is marked failed
EnsureCreate(p, ok) ==
  /\ proc[p].pc = "arming"
  /\ ok => crons[proc[p].workflow] < MaxArmCrons
  /\ Commit(ArmCrons(Store, proc[p].runId, proc[p].workflow,
                     IF ok THEN "created" ELSE "failed", now))
  /\ proc' = [proc EXCEPT ![p] = IdleProc]
  /\ out' = NoOutput
  /\ UNCHANGED now

\* cli.ts:625-653: the transaction of cleanup-stale (ok: it commits) and the events
CleanupFail(p, ok) ==
  /\ proc[p].pc = "scanned"
  /\ IF ok
     THEN /\ Commit([FailStaleRuns(Store, proc[p].staleRuns, now)
                       EXCEPT !.events = EmitRunFailed(@, proc[p].staleRuns)])
          /\ proc' = [proc EXCEPT ![p].pc = "cleaned"]
     ELSE /\ Commit(Store)
          /\ proc' = [proc EXCEPT ![p] = IdleProc]
  /\ out' = NoOutput
  /\ UNCHANGED now

\* cli.ts:655-661: the workflows of the cleaned runs still to be torn down
CleanedWorkflows(p) == {runs[r].workflow_id : r \in proc[p].staleRuns}

\* The process after the teardown of workflow w was dealt with.
TeardownDone(p, w) ==
  LET rest == {r \in proc[p].staleRuns : runs[r].workflow_id # w}
  IN IF rest = {} THEN IdleProc
     ELSE [proc[p] EXCEPT !.pc = "cleaned", !.workflow = "NULL", !.staleRuns = rest]

\* agent-cron.ts:302-304: the running runs of the next workflow are counted
TeardownCount(p) ==
  /\ proc[p].pc = "cleaned"
  /\ LET w == CHOOSE x \in CleanedWorkflows(p) : TRUE
     IN proc' = [proc EXCEPT ![p] = IF countActiveRuns(runs, w) > 0 THEN TeardownDone(p, w)
                                     ELSE [proc[p] EXCEPT !.pc = "removing", !.workflow = w]]
  /\ out' = NoOutput
  /\ UNCHANGED <<now, runs, steps, stories, events, crons, resumes>>

\* agent-cron.ts:305: removeAgentCrons, which lists the jobs and deletes them
TeardownRemove(p, left) ==
  /\ proc[p].pc = "removing"
  /\ crons' = removeAgentCrons(crons, proc[p].workflow, left)
  /\ proc' = [proc EXCEPT ![p] = TeardownDone(p, proc[p].workflow)]
  /\ out' = NoOutput
  /\ UNCHANGED <<now, runs, steps, stories, events, resumes>>

InFlightCrons ==
  Cardinality({q \in Procs : proc[q].pc = "checked"})

NextCrons ==
  \/ Tick
  \/ \E p \in Procs, w \in StaleWorkflows, allow \in BOOLEAN :
       /\ Len(runs) + InFlightCrons < MaxStaleRuns
       /\ allow => ActiveRuns(Store, w) # {}
       /\ RunCheck(p, w, allow)
  \/ \E p \in Procs : RunInsert(p, TRUE)
  \/ \E p \in Procs, listOk \in BOOLEAN : EnsureList(p, listOk)
  \/ \E p \in Procs, ok \in BOOLEAN : EnsureCreate(p, ok)
  \/ \E p \in Procs, wf \in StaleWorkflows : CleanupScan(p, wf, FALSE)
  \/ \E p \in Procs, ok \in BOOLEAN : CleanupFail(p, ok)
  \/ \E p \in Procs : TeardownCount(p)
  \/ \E p \in Procs, left \in 0..MaxCrons : TeardownRemove(p, left)

SpecCrons == Init /\ [][NextCrons]_vars

\* ------------------------------------- gateway address (gateway-api.ts:57-69)
\* Texts are sequences of characters.  A number is a sign, an integer part and
\* the digits of its fraction without trailing zeros; nan marks NaN.
DigitChars == {"0", "1", "2", "3", "4", "5", "6", "7", "8", "9"}

DigitVal(c) ==
  CASE c = "0" -> 0 [] c = "1" -> 1 [] c = "2" -> 2 [] c = "3" -> 3 [] c = "4" -> 4
    [] c = "5" -> 5 [] c = "6" -> 6 [] c = "7" -> 7 [] c = "8" -> 8 [] c = "9" -> 9

RECURSIVE DigitsVal(_)
DigitsVal(ds) ==
  IF ds = << >> THEN 0 ELSE 10 * DigitsVal(SubSeq(ds, 1, Len(ds) - 1)) + DigitVal(ds[Len(ds)])

RECURSIVE StripZeros(_)
StripZeros(ds) ==
  IF ds # << >> /\ ds[Len(ds)] = "0" THEN StripZeros(SubSeq(ds, 1, Len(ds) - 1)) ELSE ds

NaN == [nan |-> TRUE, neg |-> FALSE, int |-> 0, frac |-> << >>]
Num(n) == [nan |-> FALSE, neg |-> FALSE, int |-> n, frac |-> << >>]

\* Number(text) of JavaScript for texts of digits, "-" and ".": the empty text
\* is 0; an optional sign, then digits with an optional fraction, or a fraction
\* alone; anything else, and an unset variable (undefined), is NaN.
ToNumber(text) ==
  LET neg == text # << >> /\ text[1] = "-"
      body == IF neg THEN Tail(text) ELSE text
      dots == {i \in 1..Len(body) : body[i] = "."}
      dot == IF dots = {} THEN Len(body) + 1 ELSE CHOOSE i \in dots : TRUE
      wellFormed == /\ \A i \in 1..Len(body) : body[i] \in DigitChars \cup {"."}
                    /\ Cardinality(dots) <= 1
                    /\ Len(body) > Cardinality(dots)
  IN IF text = << >> THEN Num(0)
     ELSE IF ~wellFormed THEN NaN
     ELSE [nan |-> FALSE, neg |-> neg,
           int |-> DigitsVal(SubSeq(body, 1, dot - 1)),
           frac |-> StripZeros(SubSeq(body, dot + 1, Len(body)))]

\* Number.isFinite(x) && x > 0
IsFinitePositive(x) == ~x.nan /\ ~x.neg /\ (x.int > 0 \/ x.frac # << >>)

\* process.env.OPENCLAW_GATEWAY_PORT: unset, or a text
Unset == <<"undefined">>
EnvChars == {"0", "3", "5", "6", "-", ".", "a"}
EnvTexts == {Unset} \cup UNION {[1..n -> EnvChars] : n \in 0..MaxEnvLen}

\* gateway-api.ts:35-55: the port readOpenClawConfig finds in openclaw.json, if any
NoPort == NaN
ConfigPorts == {NoPort, Num(3000)}

\* gateway-api.ts:57-69
getGatewayConfig(envText, configPort) ==
  LET envPort == ToNumber(envText)
      port == IF IsFinitePositive(envPort) THEN envPort
              ELSE IF configPort # NoPort THEN configPort
              ELSE Num(DefaultGatewayPort)
  IN [url |-> <<"http://127.0.0.1:", port>>, port |-> port]

\* The one call of getGatewayConfig a command makes; its answer is the output.
GetGatewayConfig(envText, configPort) ==
  /\ out = NoOutput
  /\ out' = [kind |-> "gatewayConfig", env |-> envText, configPort |-> configPort,
             config |-> getGatewayConfig(envText, configPort)]
  /\ UNCHANGED <<now, runs, steps, stories, events, crons, proc, resumes>>

NextGateway ==
  /\ out = NoOutput
  /\ \E envText \in EnvTexts, configPort \in ConfigPorts : GetGatewayConfig(envText, configPort)

SpecGateway == Init /\ [][NextGateway]_vars

\* ------------------------------------------------------------------ claims
PendingSteps(r) == {i \in StepIdx(r) : steps[r][i].status = "pending"}
RunsOf(w) == {r \in RunIds : runs[r].workflow_id = w}
RunningRunsOf(w) == {r \in RunsOf(w) : runs[r].status = "running"}

\* C1: a Claim made while its agent has no eligible step answers NO_WORK and
\* changes no step; a Claim made while exactly one step is eligible returns that
\* step, marks it running and leaves nothing eligible, so every further Claim
\* answers NO_WORK; two Claims in a row never return the same step.
C1_ClaimExclusive ==
  [][\A a \in Agents : (out'.kind # "none" /\ claimStep(a)) =>
       /\ Eligible(Store, a) = {} => (out' = NO_WORK /\ steps' = steps)
       /\ Cardinality(Eligible(Store, a)) = 1 =>
            \E e \in Eligible(Store, a) :
              /\ out' = ClaimedOutput(e[1], steps[e[1]][e[2]].step_index)
              /\ steps'[e[1]][e[2]].status = "running"
              /\ Eligible(Store', a) = {}
       /\ (out.kind = "claimed" /\ out'.kind = "claimed") => out' # out]_vars

\* A Claim answered NO_WORK while a worker holds a claimed step.
C1_Witness ==
  /\ out = NO_WORK
  /\ \E r \in RunIds : \E i \in StepIdx(r) :
       steps[r][i].status = "running" /\ steps[r][i].claimed

\* C2: the step a Claim returns belongs to a run no younger than the run of any
\* other eligible step of the agent and has the lowest index among the
\* eligible steps of its run; the probe's pending queue holds the same steps in
\* the same order.
C2_FifoOrder ==
  /\ [][\A a \in Agents : (out'.kind = "claimed" /\ claimStep(a)) =>
          \A f \in Eligible(Store, a) :
            /\ runs[out'.runId].created_at <= runs[f[1]].created_at
            /\ f[1] = out'.runId => out'.stepIndex <= steps[f[1]][f[2]].step_index]_vars
  /\ [](\A a \in Agents :
          /\ PendingRows(Store, a) = Eligible(Store, a)
          /\ ProbeHead(Store, a) = OldestEligible(Store, a)
          /\ \A e \in PendingRows(Store, a) : \A f \in PendingRows(Store, a) :
               ProbeBefore(Store, e, f) <=> ClaimBefore(Store, e, f))

\* The second step of the older run was claimed while the first step of the
\* younger run was pending for the same agent.
C2_Witness ==
  /\ Len(runs) = 2
  /\ runs[1].created_at < runs[2].created_at
  /\ runs[2].status = "running"
  /\ steps[2][1].status = "pending"
  /\ steps[2][1].agent_id = steps[1][2].agent_id
  /\ out = ClaimedOutput(1, 1)

\* C3: every Fail raises the retry count of its step by exactly one; while the
\* count was below max retries the step is pending again and the run is still
\* running; the Fail that finds the count equal to max retries (the (M+1)-th
\* from count 0) marks the step failed.
C3_RetryBudget ==
  [][steps' # steps => \A r \in RunIds : \A i \in StepIdx(r) : failStep(r, i) =>
       /\ steps'[r][i].retry_count = steps[r][i].retry_count + 1
       /\ steps[r][i].retry_count < steps[r][i].max_retries =>
            /\ steps'[r][i].status = "pending"
            /\ runs[r].status = "running"
            /\ runs'[r].status = "running"
       /\ steps[r][i].retry_count = steps[r][i].max_retries =>
            steps'[r][i].status = "failed"]_vars

\* A step with a budget of two retries failed at its third Fail.
C3_Witness ==
  \E r \in RunIds : \E i \in StepIdx(r) :
    /\ steps[r][i].max_retries = 2
    /\ steps[r][i].retry_count = 3
    /\ steps[r][i].status = "failed"
    /\ steps[r][i].output = "error"

\* C4: a Fail on a step whose retry count equals its max retries marks the step
\* failed and the run failed, records one run.failed event for the run, and
\* leaves the status of every other step of the run as it was.
C4_ExhaustedFail ==
  [][steps' # steps => \A r \in RunIds : \A i \in StepIdx(r) :
       (steps[r][i].retry_count = steps[r][i].max_retries /\ failStep(r, i)) =>
         /\ steps'[r][i].status = "failed"
         /\ runs'[r].status = "failed"
         /\ events'[r]["run.failed"] = events[r]["run.failed"] + 1
         /\ \A k \in StepIdx(r) \ {i} : steps'[r][k].status = steps[r][k].status]_vars

\* The verify step exhausted its budget: the run is failed with one run.failed
\* event, the loop step is still running and the last step still waiting.
C4_Witness ==
  \E r \in RunIds : \E i \in StepIdx(r) :
    /\ runs[r].status = "failed"
    /\ events[r]["run.failed"] = 1
    /\ steps[r][i].status = "failed"
    /\ steps[r][i].retry_count = steps[r][i].max_retries + 1
    /\ \E k \in StepIdx(r) : steps[r][k].status = "running"
    /\ \E k \in StepIdx(r) : steps[r][k].status = "waiting"

\* C5 (as stated): Complete on a running single-type step marks it done, moves
\* the step at the next index from waiting to pending or, after the last step,
\* completes the run, and changes the status of no other step.
C5_Original ==
  [][steps' # steps => \A r \in RunIds : \A i \in StepIdx(r) : \A verdict \in Verdicts : \A n \in 1..MaxStories :
       (steps[r][i].type = "single" /\ completeStep(r, i, verdict, n)) =>
         /\ steps'[r][i].status = "done"
         /\ i < Len(steps[r]) =>
              /\ steps[r][i + 1].status = "waiting" => steps'[r][i + 1].status = "pending"
              /\ runs'[r].status = runs[r].status
         /\ i = Len(steps[r]) => runs'[r].status = "completed"
         /\ \A k \in StepIdx(r) \ {i, i + 1} : steps'[r][k].status = steps[r][k].status]_vars

\* C5: Complete on a running single-type step that no loop step awaits as its
\* verify step marks it done, moves the step at the next index from waiting to
\* pending (a next step that is not waiting stays as it is) or, after the last
\* step, completes the run, and changes the status of no other step.
C5_CompleteSingle ==
  [][steps' # steps => \A r \in RunIds : \A i \in StepIdx(r) : \A verdict \in Verdicts : \A n \in 1..MaxStories :
       (/\ steps[r][i].type = "single"
        /\ VerifiedLoops(Store, r, i) = {}
        /\ completeStep(r, i, verdict, n)) =>
         /\ steps'[r][i].status = "done"
         /\ i < Len(steps[r]) =>
              /\ steps[r][i + 1].status = "waiting" => steps'[r][i + 1].status = "pending"
              /\ steps[r][i + 1].status # "waiting" =>
                   steps'[r][i + 1].status = steps[r][i + 1].status
              /\ runs'[r].status = runs[r].status
         /\ i = Len(steps[r]) => runs'[r].status = "completed"
         /\ \A k \in StepIdx(r) \ {i, i + 1} : steps'[r][k].status = steps[r][k].status]_vars

\* Every step of a run was completed in turn and the run is completed.
C5_Witness ==
  \E r \in RunIds :
    /\ runs[r].status = "completed"
    /\ events[r]["run.completed"] = 1
    /\ \A i \in StepIdx(r) : steps[r][i].status = "done"
    /\ steps[r][1].type = "single"
    /\ steps[r][Len(steps[r])].type = "single"

\* C6: a run whose status is running has at most one pending step.
C6_OnePendingStep ==
  \A r \in RunIds : runs[r].status = "running" => Cardinality(PendingSteps(r)) <= 1

\* A run that was force-failed as stale and resumed: it is running again with
\* one pending step beside the steps left failed.
C6_Witness ==
  \E r \in RunIds :
    /\ runs[r].status = "running"
    /\ resumes[r] = 1
    /\ Cardinality(PendingSteps(r)) = 1
    /\ \E i \in StepIdx(r) : steps[r][i].status = "failed" /\ steps[r][i].output = "stale"

LoopSteps(r) == {j \in StepIdx(r) : IsLoop(steps[r][j])}

\* The index of the verify step of loop step j, j itself without verifyEach.
VerifyIdx(r, j) ==
  IF VerifyEach(steps[r][j])
  THEN SetMax({j} \cup {k \in StepIdx(r) : steps[r][k].step_id = LoopCfg(steps[r][j]).verifyStep})
  ELSE j

C8_VerifyEach ==
  [][steps' # steps => \A r \in RunIds :
       /\ \A i \in StepIdx(r) : \A verdict \in Verdicts : \A n \in 1..MaxStories :
            completeStep(r, i, verdict, n) =>
              /\ VerifyEach(steps[r][i]) =>
                   /\ stories' = stories
                   /\ stories[r][steps[r][i].current_story_id].status = "running"
                   /\ steps[r][VerifyIdx(r, i)].status = "waiting" =>
                        steps'[r][VerifyIdx(r, i)].status = "pending"
              /\ \A j \in VerifiedLoops(Store, r, i) :
                   LET s == steps[r][j].current_story_id
                   IN /\ verdict = "done" =>
                           /\ stories'[r][s].status = "done"
                           /\ NonTerminalStories(Store', r) # {} =>
                                /\ steps'[r][j].status = "pending"
                                /\ steps'[r][j].current_story_id = NextStory(Store', r)
                                /\ steps'[r][j].current_story_id # s
                      /\ (/\ verdict = "retry"
                          /\ stories[r][s].retry_count < LoopCfg(steps[r][j]).maxStoryRetries) =>
                           /\ steps'[r][j].status = "pending"
                           /\ steps'[r][j].current_story_id = s
                           /\ stories'[r][s].retry_count = stories[r][s].retry_count + 1
       /\ \A s \in StoryIdx(r) :
            (/\ \E j \in LoopSteps(r) : VerifyEach(steps[r][j])
             /\ stories[r][s].status # "done"
             /\ stories'[r][s].status = "done") =>
              \E i \in StepIdx(r) : \E n \in 1..MaxStories :
                VerifiedLoops(Store, r, i) # {} /\ completeStep(r, i, "done", n)]_vars

\* The verifier accepted the first story after one retry: the loop step is
\* pending, bound to the second story, and the verify step waits.
C8_Witness ==
  \E r \in RunIds : \E j \in LoopSteps(r) :
    /\ VerifyEach(steps[r][j])
    /\ Len(stories[r]) = 2
    /\ stories[r][1].status = "done"
    /\ stories[r][1].retry_count = 1
    /\ stories[r][2].status = "pending"
    /\ steps[r][j].status = "pending"
    /\ steps[r][j].current_story_id = 2
    /\ steps[r][VerifyIdx(r, j)].status = "waiting"

\* C9: the insert transaction of runWorkflow adds one run with status running
\* and one step per step of the workflow spec, in spec order, with step_index
\* its position from 0, the first pending and the others waiting, and touches
\* no other row; a failed insert leaves no run row and no step row behind.
C9_InsertTransaction ==
  [][\A p \in Procs : \A ok \in BOOLEAN : RunInsert(p, ok) =>
       LET spec == WorkflowSpec(proc[p].workflow).steps
           new == Len(runs) + 1
       IN IF ok
          THEN /\ Len(runs') = new
               /\ Len(steps') = new
               /\ runs'[new].status = "running"
               /\ runs'[new].workflow_id = proc[p].workflow
               /\ Len(steps'[new]) = Len(spec)
               /\ \A i \in 1..Len(spec) :
                    /\ steps'[new][i].step_id = spec[i].id
                    /\ steps'[new][i].step_index = i - 1
                    /\ steps'[new][i].status = IF i = 1 THEN "pending" ELSE "waiting"
               /\ \A r \in RunIds : runs'[r] = runs[r] /\ steps'[r] = steps[r]
          ELSE runs' = runs /\ steps' = steps /\ stories' = stories]_vars

\* A process has committed the insert of a four-step run and not yet armed the crons.
C9_Witness ==
  \E p \in Procs :
    /\ proc[p].pc = "inserted"
    /\ runs[proc[p].runId].status = "running"
    /\ Len(steps[proc[p].runId]) = 4
    /\ steps[proc[p].runId][1].status = "pending"
    /\ \A i \in 2..4 : steps[proc[p].runId][i].status = "waiting"

\* C10: when no run was started with allowConcurrent, no workflow has more than
\* one run with status running.
C10_OneRunningRun ==
  (\A r \in RunIds : ~runs[r].allowConcurrent) =>
    \A w \in Workflows : Cardinality(RunningRunsOf(w)) <= 1

StoreUnchanged == UNCHANGED <<runs, steps, stories, events, crons, resumes>>

\* C11: runWorkflow without allowConcurrent, called while the workflow has a
\* running run that is not stale, throws and leaves the store as it was: the
\* process does not go on to the insert, and no row, event or cron changes.
C11_ActiveRunRejected ==
  [][\A p \in Procs : \A w \in Workflows :
       (/\ proc[p].pc = "idle"
        /\ \E r \in RunningRunsOf(w) : ~IsStale(Store, r, now)
        /\ RunCheck(p, w, FALSE)) =>
         (proc' = proc /\ StoreUnchanged)]_vars

\* The last activity of run r, from the columns themselves.
LastActivity(r) == SetMax({runs[r].created_at, runs[r].updated_at, runs[r].steps_updated_at})

\* Both cleanup-stale (for the run's workflow or for all) and runWorkflow's
\* check classify run r as stale.
ClassifiedStale(r) ==
  /\ IsStale(Store, r, now)
  /\ r \in StaleRuns(Store, "ALL", now)
  /\ r \in StaleRuns(Store, runs[r].workflow_id, now)

\* Neither of them does.
ClassifiedFresh(r) ==
  /\ ~IsStale(Store, r, now)
  /\ r \notin StaleRuns(Store, "ALL", now)
  /\ r \notin StaleRuns(Store, runs[r].workflow_id, now)

\* C12: a running run is classified stale, by cleanup-stale and by runWorkflow's
\* check alike, iff it has no running step and now - lastActivity is strictly
\* greater than the threshold, lastActivity being the greatest of created_at,
\* updated_at and the steps' greatest updated_at: at the threshold exactly it is
\* not stale, one past it (with no running step) it is, and with a running
\* step it never is.
C12_StaleClassification ==
  \A r \in RunIds :
    runs[r].status = "running" =>
      /\ IF RunningSteps(Store, r) = 0 /\ now - LastActivity(r) > StaleThresholdMs
         THEN ClassifiedStale(r) ELSE ClassifiedFresh(r)
      /\ now - LastActivity(r) = StaleThresholdMs => ClassifiedFresh(r)
      /\ (RunningSteps(Store, r) = 0 /\ now - LastActivity(r) = StaleThresholdMs + 1)
           => ClassifiedStale(r)
      /\ RunningSteps(Store, r) > 0 => ClassifiedFresh(r)

\* A run is one past the threshold with no running step and is classified stale.
C12_Witness ==
  \E r \in RunIds :
    /\ runs[r].status = "running"
    /\ RunningSteps(Store, r) = 0
    /\ now - LastActivity(r) = StaleThresholdMs + 1
    /\ ClassifiedStale(r)

OpenStatuses == {"waiting", "pending", "running"}

\* The rows of run r after the step are those of a force-failed run: the run is
\* failed, its open steps are failed, the others keep their status, and only an
\* empty output of an open step became the explanation.
ForceFailedRows(r) ==
  /\ runs'[r].status = "failed"
  /\ \A i \in StepIdx(r) :
       /\ steps'[r][i].status = IF steps[r][i].status \in OpenStatuses THEN "failed"
                                ELSE steps[r][i].status
       /\ steps'[r][i].output = IF steps[r][i].status \in OpenStatuses /\ steps[r][i].output = "NULL"
                                THEN "stale" ELSE steps[r][i].output

\* C13: force-failing a stale run, by cleanup-stale or by runWorkflow's check,
\* sets the run to failed and every waiting, pending or running step of it to
\* failed; done and failed steps keep their status; an output is set to the
\* explanation only where it was empty; the steps of other runs are untouched.
C13_ForceFail ==
  [][runs' # runs =>
       /\ \A wf \in StaleWorkflows \cup {"ALL"}, left \in 0..MaxCrons :
            CleanupStale(wf, FALSE, left) =>
              /\ \A r \in StaleRuns(Store, wf, now) : ForceFailedRows(r)
              /\ \A q \in RunIds \ StaleRuns(Store, wf, now) : steps'[q] = steps[q]
       /\ \A w \in StaleWorkflows, insertOk \in BOOLEAN, outcome \in CronOutcomes :
            (/\ ActiveRuns(Store, w) # {}
             /\ \A r \in ActiveRuns(Store, w) : IsStale(Store, r, now)
             /\ RunWorkflow(w, FALSE, insertOk, outcome)) =>
               \E r \in ActiveRuns(Store, w) :
                 /\ ForceFailedRows(r)
                 /\ \A q \in RunIds \ {r} : steps'[q] = steps[q]]_vars

\* A resumed run was force-failed: its first step kept the error text of its
\* failure, its second step got the explanation, and another run has open steps.
C13_Witness ==
  \E r \in RunIds, q \in RunIds :
    /\ r # q
    /\ runs[r].status = "failed"
    /\ resumes[r] = 1
    /\ steps[r][1].status = "failed"
    /\ steps[r][1].output = "error"
    /\ steps[r][1].retry_count = steps[r][1].max_retries + 1
    /\ steps[r][2].status = "failed"
    /\ steps[r][2].output = "stale"
    /\ \E i \in StepIdx(q) : steps[q][i].status \in OpenStatuses

\* C14: the stale monitor sets a run or its steps to failed only if, at the
\* moment of the update, the run is still running and has no running step,
\* whatever Claim, Complete or Fail came between its scan and its update.
C14_NoFreshClaimFailed ==
  [][\A p \in CleanupProcs, left \in 0..MaxCrons :
       CleanupUpdate(p, TRUE, left) =>
         \A r \in proc[p].staleRuns :
           (runs'[r] # runs[r] \/ steps'[r] # steps[r]) =>
             (runs[r].status = "running" /\ RunningSteps(Store, r) = 0)]_vars

\* C15: cleanup-stale is all-or-nothing and idempotent.  A committed batch leaves
\* every selected run that was running failed and none of the selected runs with a
\* waiting, pending or running step; a batch that fails rolls back and changes
\* nothing.  The command run again right after it, at the same clock, finds no
\* stale run, changes no row and emits no event.
C15_CleanupAtomicIdempotent ==
  [][\A p \in CleanupProcs, ok \in BOOLEAN, left \in 0..MaxCrons :
       CleanupUpdate(p, ok, left) =>
         IF ok
         THEN /\ \A r \in proc[p].staleRuns :
                   /\ runs[r].status = "running" => runs'[r].status = "failed"
                   /\ \A i \in StepIdx(r) : steps'[r][i].status \notin OpenStatuses
              /\ proc[p].now = now =>
                   /\ StaleRuns(Store, proc[p].workflow, now)' = {}
                   /\ \A again \in 0..MaxCrons :
                        cleanupStale(Store, proc[p].workflow, FALSE, again, now)' = Store'
         ELSE StoreUnchanged]_vars

\* A batch of two stale runs was failed: both runs and all their steps are
\* failed with the explanation, and each run logged one run.failed.
C15_Witness ==
  /\ Len(runs) = 2
  /\ \A r \in RunIds :
       /\ runs[r].status = "failed"
       /\ events[r]["run.failed"] = 1
       /\ \A i \in StepIdx(r) : steps[r][i].status = "failed" /\ steps[r][i].output = "stale"
  /\ runs[1].updated_at = runs[2].updated_at
  /\ \A p \in CleanupProcs : proc[p].pc = "idle"

\* The step just taken is a resume of run r.
Resumed(r) == r \in RunIds /\ resumes'[r] = resumes[r] + 1

\* Step i of run r is the verify step some verifyEach loop step of the run names.
IsPairedVerify(r, i) == PairedLoops(Store, r, i) # {}

\* C16: resume of a failed run whose failed step S (the failed step of least
\* index) is neither a loop step nor a loop's paired verify step sets S to
\* pending and the run to running and leaves the status of every other step as
\* it was.
C16_ResumePlain ==
  [][resumes' # resumes =>
       \A r \in 1..MaxRuns :
         (/\ Resumed(r)
          /\ steps[r][FirstFailedStep(Store, r)].type # "loop"
          /\ ~IsPairedVerify(r, FirstFailedStep(Store, r))) =>
            /\ runs[r].status = "failed"
            /\ steps'[r][FirstFailedStep(Store, r)].status = "pending"
            /\ runs'[r].status = "running"
            /\ \A k \in StepIdx(r) \ {FirstFailedStep(Store, r)} :
                 steps'[r][k].status = steps[r][k].status]_vars

\* A run force-failed as stale was resumed: its first step is pending again, the
\* step after it is still failed.
C16_Witness ==
  \E r \in RunIds :
    /\ resumes[r] = 1
    /\ runs[r].status = "running"
    /\ steps[r][1].status = "pending"
    /\ steps[r][1].type # "loop"
    /\ steps[r][2].status = "failed"
    /\ steps[r][2].output = "stale"

\* C17: resume of a failed run whose failed step of least index is the verify
\* step a verifyEach loop step names sets that loop step to pending with no
\* current story, the verify step to waiting (not pending), every failed story
\* of the run to pending, and the run to running.
C17_ResumeVerify ==
  [][resumes' # resumes =>
       \A r \in 1..MaxRuns :
         (Resumed(r) /\ IsPairedVerify(r, FirstFailedStep(Store, r))) =>
            /\ \A j \in PairedLoops(Store, r, FirstFailedStep(Store, r)) :
                 /\ steps'[r][j].status = "pending"
                 /\ steps'[r][j].current_story_id = 0
            /\ steps'[r][FirstFailedStep(Store, r)].status = "waiting"
            /\ \A k \in StoryIdx(r) :
                 stories'[r][k].status = IF stories[r][k].status = "failed" THEN "pending"
                                         ELSE stories[r][k].status
            /\ runs'[r].status = "running"]_vars

\* A run whose verify step failed after a story had used up its retries was
\* resumed: the loop step is pending and unbound, the verify step waits, the
\* story is pending again.
C17_Witness ==
  \E r \in RunIds, j \in 1..MaxSteps, v \in 1..MaxSteps :
    /\ j \in StepIdx(r) /\ v \in StepIdx(r)
    /\ j \in PairedLoops(Store, r, v)
    /\ resumes[r] = 1
    /\ runs[r].status = "running"
    /\ steps[r][j].status = "pending"
    /\ steps[r][j].current_story_id = 0
    /\ steps[r][v].status = "waiting"
    /\ steps[r][v].retry_count > steps[r][v].max_retries
    /\ \E k \in StoryIdx(r) :
         /\ stories[r][k].status = "pending"
         /\ stories[r][k].retry_count > LoopCfg(steps[r][j]).maxStoryRetries

C19_ResumeFrame ==
  [][resumes' # resumes =>
       \A r \in 1..MaxRuns :
         Resumed(r) =>
           /\ \A i \in StepIdx(r) :
                /\ steps'[r][i].output = steps[r][i].output
                /\ steps'[r][i].retry_count = steps[r][i].retry_count
                /\ steps'[r][i].input_template = steps[r][i].input_template
                /\ steps'[r][i].agent_id = steps[r][i].agent_id
                /\ [steps'[r][i] EXCEPT !.status = steps[r][i].status,
                                        !.current_story_id = steps[r][i].current_story_id,
                                        !.claimed = steps[r][i].claimed] = steps[r][i]
           /\ \A k \in StoryIdx(r) :
                [stories'[r][k] EXCEPT !.status = stories[r][k].status] = stories[r][k]
           /\ Len(steps'[r]) = Len(steps[r])
           /\ Len(stories'[r]) = Len(stories[r])
           /\ runs'[r].context = runs[r].context]_vars

\* A run was resumed after its second step used up its retries: the step is
\* pending with its error text and its retry count, and the context holds what
\* the first step reported.
C19_Witness ==
  \E r \in RunIds :
    /\ resumes[r] = 1
    /\ runs[r].status = "running"
    /\ runs[r].context # InitialContext
    /\ \E i \in StepIdx(r) :
         /\ steps[r][i].status = "pending"
         /\ steps[r][i].output = "error"
         /\ steps[r][i].retry_count > steps[r][i].max_retries

\* Run r was force-failed as stale: only that writes the explanation.
StaleFailed(r) ==
  /\ runs[r].status = "failed"
  /\ \E i \in StepIdx(r) : steps[r][i].status = "failed" /\ steps[r][i].output = "stale"

\* C20: after resume of a run force-failed as stale, the unfinished step of
\* least index is pending and every later step is waiting, none is still
\* failed, so that Claim and Complete on each step in turn can complete the run.
C20_StaleRecoverable ==
  [][resumes' # resumes =>
       \A r \in 1..MaxRuns :
         (Resumed(r) /\ StaleFailed(r)) =>
           \A i \in StepIdx(r) :
             (steps'[r][i].status # "done" /\ \A k \in 1..(i - 1) : steps'[r][k].status = "done") =>
               /\ steps'[r][i].status = "pending"
               /\ \A k \in StepIdx(r) : k > i => steps'[r][k].status = "waiting"]_vars

\* C21: when arming the crons fails in runWorkflow, the new run ends failed and
\* the call throws without a run.started event; a call that ends with its run
\* running has armed the crons and emitted run.started once.
C21_ArmFailureFailsRun ==
  [][proc' # proc =>
       \A p \in Procs :
         (proc[p].pc = "inserted" /\ proc'[p].pc = "idle") =>
           /\ RunCrons(p, "failed") =>
                /\ runs'[proc[p].runId].status = "failed"
                /\ events' = events
                /\ crons' = crons
           /\ events'[proc[p].runId]["run.started"] = 0 =>
                runs'[proc[p].runId].status = "failed"
           /\ runs'[proc[p].runId].status = "running" =>
                /\ crons'[proc[p].workflow] > 0
                /\ events'[proc[p].runId]["run.started"] = 1]_vars

\* A run whose arming failed: it is failed, no process is still working on it,
\* it logged no event, and its workflow has no cron job.
C21_Witness ==
  \E r \in RunIds :
    /\ runs[r].status = "failed"
    /\ runs[r].updated_at > runs[r].created_at
    /\ events[r] = NoEvents
    /\ crons[runs[r].workflow_id] = 0
    /\ \A p \in Procs : proc[p].runId # r

\* C22: when the crons cannot be armed during resume, the run is marked failed
\* and not left running without a cron job.
C22_ResumeArmFailureFailsRun ==
  [][resumes' # resumes =>
       \A r \in 1..MaxRuns :
         (/\ Resumed(r)
          /\ Resume(r, "failed")
          /\ crons'[runs[r].workflow_id] = 0) =>
            runs'[r].status = "failed"]_vars

\* The runs of workflow w that were armed: they started, or they were resumed.
ArmedRunsOf(w) ==
  {r \in RunsOf(w) : events[r]["run.started"] > 0 \/ resumes[r] > 0}

\* C23: arming is idempotent: after any series of run starts and resumes of a
\* workflow, one after the other, the workflow has exactly one driver cron.
C23_OneDriverCron ==
  \A w \in Workflows : ArmedRunsOf(w) # {} => crons[w] = 1

\* C24: every transition of a run into status failed (Fail out of retries,
\* cleanup-stale, the stale recovery of runWorkflow, a failure to arm the crons
\* at run start) records exactly one run.failed event for the run, and no
\* run.failed event is recorded for a run that did not become failed.
C24_FailedEmitsOnce ==
  [][(runs' # runs \/ events' # events) =>
       \A r \in RunIds :
         events'[r]["run.failed"] =
           events[r]["run.failed"] +
             (IF runs[r].status # "failed" /\ runs'[r].status = "failed" THEN 1 ELSE 0)]_vars

\* C25: teardownWorkflowCronsIfIdle removes cron jobs of a workflow only when
\* the workflow has no running run; while a run of the workflow is running it
\* removes nothing; it never removes the cron jobs of another workflow than the
\* one it is called for (here: the workflows of the runs just force-failed).
C25_TeardownOnlyIdle ==
  [][crons' # crons =>
       \A w \in Workflows :
         crons'[w] < crons[w] =>
           /\ countActiveRuns(runs', w) = 0
           /\ \E r \in RunsOf(w) : runs[r].status = "running" /\ runs'[r].status = "failed"]_vars

\* The crons of one workflow were torn down when its only run was force-failed,
\* while the workflow whose id extends its id keeps its run and its cron.
C25_Witness ==
  \E r1 \in RunIds, r2 \in RunIds :
    /\ StaleFailed(r1)
    /\ runs[r1].workflow_id = "w3"
    /\ crons["w3"] = 0
    /\ runs[r2].workflow_id = "w2"
    /\ runs[r2].status = "running"
    /\ crons["w2"] = 1

\* The runs an output of cleanup-stale lists.
ReportedRuns(o) == IF o.kind = "dry-run" THEN o.runs ELSE {}

\* The runs a cleanup-stale without --dry-run would force-fail now.
WouldForceFail(wf, left) ==
  {r \in RunIds : /\ runs[r].status = "running"
                  /\ cleanupStale(Store, wf, FALSE, left, now).runs[r].status = "failed"}

\* C26: cleanup-stale --dry-run modifies no run, step or story row, emits no
\* event and tears down no cron; the runs it lists are exactly the runs the
\* command without --dry-run would force-fail in the same state; with a
\* workflow id only runs of that workflow are listed or failed.
C26_DryRunChangesNothing ==
  /\ [][out'.kind = "dry-run" =>
          \A wf \in Workflows \cup {"ALL"} :
            out' = cleanupOut(Store, wf, TRUE, now) =>
              \A left \in 0..MaxCrons :
                CleanupStale(wf, TRUE, left) =>
                  /\ StoreUnchanged
                  /\ ReportedRuns(out') = WouldForceFail(wf, left)
                  /\ wf # "ALL" => \A r \in ReportedRuns(out') : runs[r].workflow_id = wf]_vars
  /\ [][(out' = NoOutput /\ runs' # runs /\ now' = now /\ Len(runs') = Len(runs)) =>
          \A wf \in Workflows, left \in 0..MaxCrons :
            CleanupStale(wf, FALSE, left) =>
              \A r \in RunIds : runs'[r] # runs[r] => runs[r].workflow_id = wf]_vars

\* A dry run for one workflow listed its stale run and left it running, and
\* left out the stale run of the other workflow.
C26_Witness ==
  /\ out.kind = "dry-run"
  /\ \E r1 \in RunIds, r2 \in RunIds :
       /\ out.runs = {r1}
       /\ runs[r1].status = "running"
       /\ r2 \in StaleRuns(Store, "ALL", now)
       /\ runs[r2].workflow_id # runs[r1].workflow_id

\* The text is an integer in 1..65535, written in decimal digits.
IsPortText(text) ==
  /\ text # << >>
  /\ \A i \in 1..Len(text) : text[i] \in DigitChars
  /\ DigitsVal(text) \in 1..MaxPort

\* C27: getGatewayConfig takes OPENCLAW_GATEWAY_PORT as the port when it is an
\* integer in 1..65535 and otherwise (0, negative, above 65535, not a number,
\* empty, unset) the default port 18789; the url is http://127.0.0.1:<port>.
C27_PortInRangeOrDefault ==
  out.kind = "gatewayConfig" =>
    /\ out.config.port = (IF IsPortText(out.env) THEN Num(DigitsVal(out.env))
                           ELSE Num(DefaultGatewayPort))
    /\ out.config.url = <<"http://127.0.0.1:", out.config.port>>

\* C28: resume is atomic: in no reachable state, whatever crashes or interleaves
\* with it, is a step that resume took back from failed (it keeps its output or
\* its used retries) pending while its run is still failed.
C28_ResumeAtomic ==
  \A r \in RunIds : \A i \in StepIdx(r) :
    ~(/\ runs[r].status = "failed"
      /\ steps[r][i].status = "pending"
      /\ (steps[r][i].output # "NULL" \/ steps[r][i].retry_count > 0))

C30_ClaimOnlyRunning ==
  [][(steps' # steps \/ out'.kind = "claimed") =>
       /\ out'.kind = "claimed" =>
            /\ runs[out'.runId].status = "running"
            /\ runs'[out'.runId].status = "running"
       /\ \A r \in RunIds : \A i \in StepIdx(r) :
            (steps[r][i].status # "running" /\ steps'[r][i].status = "running") =>
              /\ runs[r].status = "running"
              /\ steps[r][i].status = "pending"]_vars

\* The crons could not be armed: the run is failed, its step 0 is still pending
\* and was never handed out, and the last Claim found no work.
C30_Witness ==
  /\ out = NO_WORK
  /\ \E r \in RunIds :
       /\ runs[r].status = "failed"
       /\ events[r] = NoEvents
       /\ steps[r][1].status = "pending"
       /\ ~steps[r][1].claimed

\* The resume of run r takes the plain branch: its failed step is not the verify
\* step of a loop step the query of cli.ts:765-767 may return.
PlainResume(r) ==
  /\ Resumed(r)
  /\ \A loopStep \in ResumeLoopSteps(Store, r) :
       ~IsVerifyOf(Store, r, FirstFailedStep(Store, r), loopStep)

\* The failed story of run r of least index.
FirstFailedStory(r) ==
  CHOOSE k \in FailedStories(Store, r) : \A m \in FailedStories(Store, r) : k <= m

\* C31: in the plain case of resume, if the run has a failed story, the failed
\* story of least index is reset to pending, whatever the type of the failed
\* step that is reset, and no other story is touched.
C31_StoryReset ==
  [][resumes' # resumes =>
       \A r \in 1..MaxRuns :
         (PlainResume(r) /\ FailedStories(Store, r) # {}) =>
           /\ stories'[r][FirstFailedStory(r)].status = "pending"
           /\ \A m \in StoryIdx(r) \ {FirstFailedStory(r)} :
                stories'[r][m] = stories[r][m]]_vars

\* C32: completed is terminal: a run that is completed stays completed,
\* whatever Fail, cleanup-stale, the stale recovery of runWorkflow and resume do
\* and however they interleave.
C32_CompletedTerminal ==
  [][runs' # runs =>
       \A r \in RunIds : runs[r].status = "completed" => runs'[r].status = "completed"]_vars

\* C33: every failed run can be resumed: a run whose status is failed has a
\* step whose status is failed, also when it failed because the crons could not
\* be armed at its start.
C33_FailedRunResumable ==
  \A r \in RunIds : runs[r].status = "failed" => FailedSteps(Store, r) # {}

\* C34: a workflow with a running run whose runWorkflow call returned (it logged
\* run.started) has a cron job, however the arming of runWorkflow interleaves
\* with the teardown of cleanup-stale.
C34_RunningRunHasCron ==
  \A r \in RunIds :
    (runs[r].status = "running" /\ events[r]["run.started"] > 0 /\ resumes[r] = 0) =>
      crons[runs[r].workflow_id] > 0

\* C35: a workflow never has more than one driver cron, also when two calls of
\* ensureWorkflowCrons interleave between the look at the jobs and the creation,
\* and when the listing of the jobs fails.
C35_AtMostOneDriverCron ==
  \A w \in Workflows : crons[w] <= 1

\* C36: when runWorkflow without allowConcurrent, overlapped by no other
\* command, force-fails the stale oldest running run of the workflow, no run
\* of that workflow that was started with allowConcurrent is left running
\* beside the run it then creates.
C36_RecoveredRunIsAlone ==
  [][\A p \in Procs :
       (/\ proc[p].pc = "idle"
        /\ proc'[p].pc = "checked"
        /\ ~proc'[p].allowConcurrent
        /\ \A q \in Procs \ {p} : proc[q].pc = "idle"
        /\ runs' # runs) =>
          \A r \in 1..Len(runs') :
             (runs'[r].workflow_id = proc'[p].workflow /\ runs'[r].allowConcurrent) =>
                runs'[r].status # "running"]_vars

\* C37: Resume leaves every retry count as it was, so a step that had used up
\* its retries still has retry_count > max_retries after Resume, and the first
\* Fail on it in the resumed run marks the step and the run failed again.
C37_ResumeKeepsRetries ==
  /\ [][resumes' # resumes =>
          \A r \in RunIds : \A i \in StepIdx(r) :
             steps'[r][i].retry_count = steps[r][i].retry_count]_vars
  /\ [][\A r \in RunIds : \A i \in StepIdx(r) :
          (/\ resumes[r] > 0
           /\ steps[r][i].retry_count > steps[r][i].max_retries
           /\ steps'[r][i].retry_count = steps[r][i].retry_count + 1) =>
             /\ steps'[r][i].status = "failed"
             /\ runs'[r].status = "failed"]_vars

\* a step that used up its retries, was resumed, claimed and failed once more
C37_Witness ==
  \E r \in RunIds : \E i \in StepIdx(r) :
     /\ resumes[r] > 0
     /\ runs[r].status = "failed"
     /\ steps[r][i].status = "failed"
     /\ steps[r][i].retry_count = steps[r][i].max_retries + 2

\* C38: on the same store, clock and threshold, runWorkflow's recovery and
\* cleanup-stale find the same running runs stale, and failing such a run
\* leaves the same run status and the same step statuses either way.
C38_StaleImplementationsAgree ==
  \A r \in RunIds :
     runs[r].status = "running" =>
       \A t \in 0..MaxClock :
          /\ IsStale(Store, r, t) <=> r \in StaleRuns(Store, runs[r].workflow_id, t)
          /\ IsStale(Store, r, t) <=> r \in StaleRuns(Store, "ALL", t)
          /\ IsStale(Store, r, t) =>
               LET recovered == StaleRecover(Store, r, t)
                   cleaned == FailStaleRuns(Store, {r}, t)
               IN /\ recovered.runs[r].status = cleaned.runs[r].status
                  /\ \A i \in StepIdx(r) :
                       recovered.steps[r][i].status = cleaned.steps[r][i].status

\* a stale running run with open steps next to a running run that is not stale
C38_Witness ==
  \E r \in RunIds, q \in RunIds :
     /\ runs[r].status = "running"
     /\ runs[q].status = "running"
     /\ IsStale(Store, r, now)
     /\ OpenSteps(Store, r) # {}
     /\ ~IsStale(Store, q, now)
     /\ RunningSteps(Store, q) = 0

====
